---- MODULE Spec2Model ----
(***************************************************************************)
(* BenchMarket: the blackjack round orchestrator (playHand,                *)
(* playHandsStream, playHandsStreamVs), the per-agent daily bankroll       *)
(* ledger, and the head-to-head ("next 3 hands") market that settles from  *)
(* the ledger's settled-hand rows.                                         *)
(*                                                                         *)
(* Amounts are integer cents.  The deployment configuration modelled is    *)
(* BLACKJACK_DAILY_CENTS=6, BLACKJACK_MIN_BET_CENTS=2,                     *)
(* BLACKJACK_MAX_BET_CENTS=3 (config.ts reads the three from the           *)
(* environment), so that every balance the code can produce is explored.   *)
(***************************************************************************)
EXTENDS Integers, Sequences, FiniteSets, TLC

VARIABLES
  today,           \* today(): the current UTC date, as a day number
  dailyBankrolls,  \* daily_bankrolls: [<<model_id, date>> -> balance_cents], rows that exist
  blackjackHands,  \* blackjack_hands: [<<model_id, date>> -> sequence of rows, in insertion order]
  stream,          \* locals of the playHandsStream request in flight
  vs,              \* locals of the playHandsStreamVs request in flight
  events,          \* the events each run handed to onEvent, in order
  conn,            \* state of each run's response stream (telemetry consumer)
  next3Bets,       \* next_3_bets rows, in insertion order
  balanceCents,    \* user-balance: the bettor's balance
  lastDailyDate,   \* user-balance: the day of the last daily claim, 0 for none
  betsResponse,    \* next3Bets of the last GET /market/bets response
  performanceBets, \* performance_bets rows, in insertion order
  settle,          \* locals of the settlement passes in flight
  clock,           \* Date.now(), in units of the auto-play loop's sleep(tickMs)
  autoPlayState,   \* autoPlayBlackjack: nextHandAt, lastHandAt, pendingHand
  vsLoop,          \* locals of runVsLoop and where it stands
  handRuns,        \* history: who began to run which pending hand, by its "at"
  placement        \* locals of the POST /market/bet or /bet-next3 request in flight

vars == <<today, dailyBankrolls, blackjackHands, stream, vs, events, conn,
          next3Bets, balanceCents, lastDailyDate, betsResponse, performanceBets, settle,
          clock, autoPlayState, vsLoop, handRuns, placement>>

-----------------------------------------------------------------------------
(* Bounds of the model *)

MaxDay == 2          \* days the clock runs through
MaxRows == 3         \* settled hands per (agent, date) in the market specification
MaxTotal == 2        \* settled hands in all in the orchestrator specification
MaxHandsReq == 2     \* largest "hands" a streaming request asks for
MaxNext3 == 1        \* head-to-head wagers placed

(* Configuration *)

BLACKJACK_DAILY_CENTS == 6
MIN_BET_CENTS == 2
MAX_BET_CENTS == 3
USER_DAILY_CENTS == 2

Dates == 1..MaxDay

\* Agent ids a caller may send: two with a registered gateway, one without.
REGISTERED == {"openai-gpt-4o-mini", "openai-gpt-4o"}
ModelIds == REGISTERED \cup {"nobody"}

\* Variant: a registry that falls back to a default provider for any id.
getAIProviderDefault(id) == TRUE

\* getAIProvider(id) is a provider or null: whether it is one
getAIProvider(id) == id \in REGISTERED

\* A parse result: <<>> when nothing was found (null), else <<value>>.
Null == <<>>

-----------------------------------------------------------------------------
(* engine: cards, hand value, dealer, resolution *)

RANKS == <<"2", "3", "4", "5", "6", "7", "8", "9", "10", "J", "Q", "K", "A">>
SUITS == <<"H", "D", "C", "S">>

Card(r, s) == <<r, s>>

RankNumber ==
  [r \in {"2", "3", "4", "5", "6", "7", "8", "9", "10"} |->
     CASE r = "2" -> 2 [] r = "3" -> 3 [] r = "4" -> 4 [] r = "5" -> 5
       [] r = "6" -> 6 [] r = "7" -> 7 [] r = "8" -> 8 [] r = "9" -> 9
       [] r = "10" -> 10]

cardValue(card) ==
  IF card[1] = "A" THEN 11
  ELSE IF card[1] \in {"K", "Q", "J"} THEN 10
  ELSE RankNumber[card[1]]

RECURSIVE SumValues(_)
SumValues(cards) ==
  IF cards = <<>> THEN 0 ELSE cardValue(Head(cards)) + SumValues(Tail(cards))

CountAces(cards) == Cardinality({i \in 1..Len(cards) : cards[i][1] = "A"})

\* Variant: at most one ace is taken down to 1.
ReduceAcesOnce(total, aces) ==
  IF total > 21 /\ aces > 0 THEN total - 10 ELSE total

\* while (total > 21 && aces) { total -= 10; aces--; }
RECURSIVE ReduceAces(_, _)
ReduceAces(total, aces) ==
  IF total > 21 /\ aces > 0 THEN ReduceAces(total - 10, aces - 1) ELSE total

handValue(cards) == ReduceAces(SumValues(cards), CountAces(cards))

isBust(cards) == handValue(cards) > 21

\* Variant: a pop that reads the last element and leaves it in the deck.
PopKeeps(deck) == deck

\* deck.pop(): the array's last element leaves the deck.
Top(deck) == deck[Len(deck)]
Pop(deck) == SubSeq(deck, 1, Len(deck) - 1)

\* dealerPlays(deck, hand): <<final hand, remaining deck>>
RECURSIVE dealerPlays(_, _)
dealerPlays(deck, hand) ==
  IF handValue(hand) < 17
  THEN dealerPlays(Pop(deck), Append(hand, Top(deck)))
  ELSE <<hand, deck>>

\* Variant: the dealer's bust is looked at first.
resolveHandDealerFirst(playerCards, dealerCards) ==
  LET pv == handValue(playerCards)
      dv == handValue(dealerCards)
  IN IF dv > 21 THEN "win"
     ELSE IF pv > 21 THEN "loss"
     ELSE IF pv > dv THEN "win"
     ELSE IF pv < dv THEN "loss"
     ELSE "push"

resolveHand(playerCards, dealerCards) ==
  LET pv == handValue(playerCards)
      dv == handValue(dealerCards)
  IN IF pv > 21 THEN "loss"
     ELSE IF dv > 21 THEN "win"
     ELSE IF pv > dv THEN "win"
     ELSE IF pv < dv THEN "loss"
     ELSE "push"

\* Reverse of a sequence: shuffles below are written in the order the cards are popped.
Rev(s) == [i \in 1..Len(s) |-> s[Len(s) + 1 - i]]

\* createDeck(): the shuffles explored, each the top of a shuffled 52-card deck
\* (pairwise distinct cards), written first-popped first.
\* Sixteen against the dealer's nineteen.
DeckExample ==
  Rev(<<Card("10","S"), Card("6","H"), Card("K","D"), Card("9","C"), Card("10","H"),
        Card("8","D"), Card("Q","C"), Card("7","S"), Card("J","H"), Card("9","D"),
        Card("K","S"), Card("Q","H")>>)

\* The dealer holds 15 and the next card is a ten.
DeckDealerDraws ==
  Rev(<<Card("10","H"), Card("6","D"), Card("10","C"), Card("5","S"), Card("10","D"),
        Card("9","H"), Card("K","C"), Card("8","S"), Card("Q","D"), Card("J","C"),
        Card("7","H"), Card("K","H")>>)

\* Twenty against twenty, an ace next.
DeckPush ==
  Rev(<<Card("K","H"), Card("Q","S"), Card("J","D"), Card("10","C"), Card("A","S"),
        Card("5","H"), Card("9","S"), Card("8","H"), Card("K","D"), Card("10","D"),
        Card("Q","C"), Card("J","S")>>)

\* Low cards: room for more than one hit.
DeckLow ==
  Rev(<<Card("5","H"), Card("6","C"), Card("7","D"), Card("9","S"), Card("10","C"),
        Card("2","D"), Card("K","H"), Card("Q","S"), Card("J","D"), Card("8","C"),
        Card("9","C"), Card("10","D")>>)

\* What shuffle(createDeck()) may return: the tops of four decks.
Shuffles == {DeckExample, DeckDealerDraws, DeckPush, DeckLow}

-----------------------------------------------------------------------------
(* agent replies *)

\* A reply to a bet prompt: whether it holds "BET: <number>", and the number in
\* thousandths of a dollar ("BET: 0.025" is 25).
BetReplies ==
  { [marker |-> FALSE, milli |-> 0],
    [marker |-> TRUE, milli |-> 0],
    [marker |-> TRUE, milli |-> 25],
    [marker |-> TRUE, milli |-> 1000] }

\* Math.round(dollars * 100) for a number of thousandths of a dollar
RoundCents(milli) == (milli + 5) \div 10

parseBetFromResponse(text) ==
  IF ~text.marker THEN Null ELSE <<RoundCents(text.milli)>>

Min(a, b) == IF a < b THEN a ELSE b
Max(a, b) == IF a > b THEN a ELSE b

\* raw != null ? Math.max(minBet, Math.min(handMaxBet, raw)) : minBet
ClampBet(raw, minBet, handMaxBet) ==
  IF raw # Null THEN Max(minBet, Min(handMaxBet, raw[1])) ELSE minBet

\* A decision string, as its characters.
DecisionReplies ==
  { <<"H", "i", "t">>, <<"s", "t", "a", "n", "d">>, <<"h", "i">> }

toLowerCase(s) ==
  [i \in 1..Len(s) |->
     CASE s[i] = "H" -> "h" [] s[i] = "I" -> "i" [] s[i] = "T" -> "t"
       [] s[i] = "D" -> "d" [] s[i] = "E" -> "e" [] s[i] = "C" -> "c"
       [] s[i] = "S" -> "s" [] s[i] = "O" -> "o" [] s[i] = "N" -> "n"
       [] s[i] = "R" -> "r" [] s[i] = "A" -> "a" [] s[i] = "G" -> "g"
       [] OTHER -> s[i]]

startsWith(s, prefix) ==
  Len(s) >= Len(prefix) /\ SubSeq(s, 1, Len(prefix)) = prefix

\* decision.toLowerCase().startsWith("hit") ? "hit" : "stand"
NormalizeDecision(decision) ==
  IF startsWith(toLowerCase(decision), <<"h", "i", "t">>) THEN "hit" ELSE "stand"

\* The text of a reply to a play prompt: its lines, each line its tokens (the pieces
\* between white space), each token its characters.
DECISION_MARK == <<"d", "e", "c", "i", "s", "i", "o", "n", ":">>

\* /DECISION:/i matches the token
IsMarker(tok) == toLowerCase(tok) = DECISION_MARK

\* (\w+) at the start of a token: its characters up to the first that is no word character
WordPrefix(tok) ==
  LET stops == {i \in 1..Len(tok) : tok[i] = ":"}
  IN IF stops = {} THEN tok
     ELSE SubSeq(tok, 1, (CHOOSE i \in stops : \A j \in stops : i <= j) - 1)

RECURSIVE Tokens(_)
Tokens(lines) == IF lines = <<>> THEN <<>> ELSE Head(lines) \o Tokens(Tail(lines))

\* content.match(/DECISION:\s*(\w+)/i): <<the word>> of the first match, else <<>>
MarkedDecision(content) ==
  LET toks == Tokens(content)
      at == {i \in 1..(Len(toks) - 1) : IsMarker(toks[i]) /\ WordPrefix(toks[i + 1]) # <<>>}
  IN IF at = {} THEN Null
     ELSE <<WordPrefix(toks[(CHOOSE i \in at : \A j \in at : i <= j) + 1])>>

\* content.match(/(?:^|\n)\s*(\w+)\s*$/): the last line when it is one word
LastLineWord(content) ==
  IF content = <<>> THEN Null
  ELSE LET line == content[Len(content)]
       IN IF Len(line) = 1 /\ WordPrefix(line[1]) = line[1] THEN <<line[1]>> ELSE Null

\* content.split(/\s+/)[0]: the first token, the empty string for an empty reply
FirstToken(content) ==
  IF Tokens(content) = <<>> THEN <<>> ELSE Tokens(content)[1]

\* parseStructuredResponse(content).decision
parseStructuredResponse(content) ==
  toLowerCase(
    IF MarkedDecision(content) # Null THEN MarkedDecision(content)[1]
    ELSE IF LastLineWord(content) # Null THEN LastLineWord(content)[1]
    ELSE FirstToken(content))

\* Replies to a play prompt: empty, prose, marked, bare words, a marker with nothing
\* after it, prose that ends on a line of one word.
PlayReplies ==
  { <<>>,
    << <<<<"I">>, <<"t", "h", "i", "n", "k">>, <<"I", "l", "l">>, <<"g", "o">>,
         <<"f", "o", "r">>, <<"i", "t">>>> >>,
    << <<<<"D", "E", "C", "I", "S", "I", "O", "N", ":">>, <<"h", "i", "t">>>> >>,
    << <<<<"I">>, <<"t", "h", "i", "n", "k">>>>,
       <<<<"D", "e", "c", "i", "s", "i", "o", "n", ":">>, <<"S", "T", "A", "N", "D">>>> >>,
    << <<<<"H", "i", "t">>>> >>,
    << <<<<"h", "i", "t">>, <<"m", "e">>>> >>,
    << <<<<"D", "E", "C", "I", "S", "I", "O", "N", ":">>>> >>,
    << <<<<"I">>, <<"t", "h", "i", "n", "k">>>>, <<<<"h", "i", "t">>>> >> }

-----------------------------------------------------------------------------
(* ledger: daily_bankrolls and blackjack_hands *)

Key(modelId, date) == <<modelId, date>>

HasRow(db, k) == k \in DOMAIN db

\* Variant: ON CONFLICT DO UPDATE SET balance_cents = the allowance.
getOrCreateDailyBankrollReset(db, modelId, date) ==
  IF HasRow(db, Key(modelId, date))
  THEN [db EXCEPT ![Key(modelId, date)] = BLACKJACK_DAILY_CENTS]
  ELSE db @@ (Key(modelId, date) :> BLACKJACK_DAILY_CENTS)

\* INSERT INTO daily_bankrolls ... ON CONFLICT DO UPDATE ... RETURNING balance_cents
getOrCreateDailyBankroll(db, modelId, date) ==
  IF HasRow(db, Key(modelId, date)) THEN db
  ELSE db @@ (Key(modelId, date) :> BLACKJACK_DAILY_CENTS)

\* Variant: an UPDATE without the balance_cents >= betCents condition.
DeductAcceptedAnyBalance(db, modelId, date, betCents) ==
  HasRow(db, Key(modelId, date))

\* deductBet: the UPDATE matches only a row with balance_cents >= betCents
DeductAccepted(db, modelId, date, betCents) ==
  HasRow(db, Key(modelId, date)) /\ db[Key(modelId, date)] >= betCents

deductBet(db, modelId, date, betCents) ==
  IF DeductAccepted(db, modelId, date, betCents)
  THEN [db EXCEPT ![Key(modelId, date)] = @ - betCents]
  ELSE db

creditResult(db, modelId, date, pnlCents) ==
  IF HasRow(db, Key(modelId, date))
  THEN [db EXCEPT ![Key(modelId, date)] = @ + pnlCents]
  ELSE db

\* outcome === "win" ? betCents : outcome === "loss" ? -betCents : 0
PnlCents(outcome, betCents) ==
  IF outcome = "win" THEN betCents ELSE IF outcome = "loss" THEN -betCents ELSE 0

HandRow(betCents, outcome, pnlCents) ==
  [bet_cents |-> betCents, outcome |-> outcome, pnl_cents |-> pnlCents,
   reasoning |-> Null]

\* INSERT INTO blackjack_hands
InsertHand(hands, modelId, date, row) ==
  [hands EXCEPT ![Key(modelId, date)] = Append(@, row)]

RECURSIVE SumPnl(_)
SumPnl(rows) == IF rows = <<>> THEN 0 ELSE Head(rows).pnl_cents + SumPnl(Tail(rows))

-----------------------------------------------------------------------------
(* POST /play: playHand, one hand with at most one hit *)

\* getAIBetCents, after its bankroll row exists: <<>> when it throws
\* "Insufficient bankroll", else <<bet>>.
getAIBetCents(balance, reply) ==
  LET handMaxBet == Min(balance, MAX_BET_CENTS)
  IN IF balance < MIN_BET_CENTS THEN <<>>
     ELSE <<ClampBet(parseBetFromResponse(reply), MIN_BET_CENTS, handMaxBet)>>

\* The cards of playHand: deal, one decision, the dealer if the player is not bust.
PlayHandCards(deck0, normalizedDecision) ==
  LET p1 == Top(deck0)
      d1 == Pop(deck0)
      p2 == Top(d1)
      d2 == Pop(d1)
      dealerUpcard == Top(d2)
      d3 == Pop(d2)
      dealerDown == Top(d3)
      d4 == Pop(d3)
      playerCards == IF normalizedDecision = "hit" THEN <<p1, p2, Top(d4)>> ELSE <<p1, p2>>
      d5 == IF normalizedDecision = "hit" THEN Pop(d4) ELSE d4
      dealerCards == IF ~isBust(playerCards)
                     THEN dealerPlays(d5, <<dealerUpcard, dealerDown>>)[1]
                     ELSE <<dealerUpcard, dealerDown>>
  IN [playerCards |-> playerCards, dealerCards |-> dealerCards]

\* playHand(modelId, betCents) from the deal on: resolve, deductBet, creditResult,
\* INSERT INTO blackjack_hands.
PlayHandSettle(modelId, betCents, deck0, decision) ==
  LET cards == PlayHandCards(deck0, NormalizeDecision(decision))
      outcome == IF isBust(cards.playerCards) THEN "loss"
                 ELSE resolveHand(cards.playerCards, cards.dealerCards)
      pnlCents == PnlCents(outcome, betCents)
      db0 == getOrCreateDailyBankroll(dailyBankrolls, modelId, today)
      db1 == deductBet(db0, modelId, today, betCents)
      db2 == creditResult(db1, modelId, today, pnlCents)
  IN /\ dailyBankrolls' = db2
     /\ blackjackHands' =
          InsertHand(blackjackHands, modelId, today, HandRow(betCents, outcome, pnlCents))

\* playHand(modelId, betCents): deck0 is what shuffle() returned, decision the
\* agent's reply to the play prompt.
playHand(modelId, betCents, deck0, decision) ==
  /\ UNCHANGED <<today, stream, vs, events, conn, next3Bets, balanceCents, lastDailyDate, betsResponse, performanceBets, settle, clock, autoPlayState, vsLoop, handRuns, placement>>
  /\ IF ~getAIProvider(modelId)
     THEN UNCHANGED <<dailyBankrolls, blackjackHands>>   \* throws "Unknown AI model"
     ELSE LET db0 == getOrCreateDailyBankroll(dailyBankrolls, modelId, today)
              balance == db0[Key(modelId, today)]
          IN IF balance < betCents
             THEN /\ dailyBankrolls' = db0              \* throws "Insufficient bankroll for this bet"
                  /\ UNCHANGED blackjackHands
             ELSE PlayHandSettle(modelId, betCents, deck0, decision)

\* betCents > 0 of a POST /play body: they go to playHand as sent.
PlayBets == {5}

\* POST /play with betCents > 0
PostPlayBet(modelId, bodyBet, deck0, decision) ==
  /\ bodyBet > 0
  /\ playHand(modelId, bodyBet, deck0, decision)

\* POST /play with betCents <= 0: the agent sizes the bet (getAIBetCents), then playHand
PostPlayAsk(modelId, betReply, deck0, decision) ==
  IF ~getAIProvider(modelId)
  THEN UNCHANGED vars                                    \* throws "Unknown AI model"
  ELSE LET db0 == getOrCreateDailyBankroll(dailyBankrolls, modelId, today)
           asked == getAIBetCents(db0[Key(modelId, today)], betReply)
       IN IF asked = <<>>
          THEN /\ dailyBankrolls' = db0                  \* throws "Insufficient bankroll"
               /\ UNCHANGED <<today, blackjackHands, stream, vs, events, conn, next3Bets,
                              balanceCents, lastDailyDate, betsResponse, performanceBets, settle, clock, autoPlayState, vsLoop, handRuns, placement>>
          ELSE playHand(modelId, asked[1], deck0, decision)

-----------------------------------------------------------------------------
(* telemetry: the events handed to onEvent *)

Ev(type, arg) == [type |-> type, arg |-> arg]

Emit(p, evs) == events' = [events EXCEPT ![p] = @ \o evs]

\* The dealer's turn of the streaming variants: reveal, then draw while below 17.
\* <<dealer hand, dealer_reveal and dealer_draw events>>
RECURSIVE DealerDraws(_, _, _)
DealerDraws(deck, dealerCards, evs) ==
  IF handValue(dealerCards) < 17
  THEN LET card == Top(deck)
           next == Append(dealerCards, card)
       IN DealerDraws(Pop(deck), next, Append(evs, Ev("dealer_draw", <<>>)))
  ELSE <<dealerCards, evs>>

DealerTurn(deck, dealerUpcard, dealerDown) ==
  LET dealerCards == <<dealerUpcard, dealerDown>>
  IN DealerDraws(deck, dealerCards, <<Ev("dealer_reveal", <<>>)>>)

\* Hands a request body asks for; Math.max(1, Math.min(hands, 100))
HANDS_CAP == 100
HandsInputs == 0..MaxHandsReq
TotalHands(hands) == Max(1, Min(hands, HANDS_CAP))

\* maxBetCents of a request body (0: not given)
MaxBetInputs == {0, 1, 5}

\* POST /play-stream: maxBetCents > 0 ? maxBetCents : config.blackjackMaxBetCents,
\* then playHandsStream: maxBetCents > 0 ? Math.min(maxBetCents, MAX_BET_CENTS) : MAX_BET_CENTS
EffectiveMaxBet(bodyMaxBet) ==
  LET maxBetCents == IF bodyMaxBet > 0 THEN bodyMaxBet ELSE MAX_BET_CENTS
  IN IF maxBetCents > 0 THEN Min(maxBetCents, MAX_BET_CENTS) ELSE MAX_BET_CENTS

-----------------------------------------------------------------------------
(* POST /play-stream, single agent: playHandsStream *)

\* SELECT balance_cents ...; Number(rows[0]?.balance_cents ?? balance)
SelectBalance(db, modelId, date, fallback) ==
  IF HasRow(db, Key(modelId, date)) THEN db[Key(modelId, date)] ELSE fallback

StreamIdle ==
  [pc |-> "idle", modelId |-> "", date |-> 0, balance |-> 0, totalHands |-> 0,
   handIndex |-> 0, effectiveMaxBet |-> 0, deck |-> <<>>, playerCards |-> <<>>,
   dealerUpcard |-> <<>>, dealerDown |-> <<>>, dealerCards |-> <<>>, betCents |-> 0,
   lastDecision |-> "stand", outcome |-> "", pnlCents |-> 0, balanceCentsAfter |-> 0,
   started |-> 0, settled |-> 0, result |-> "", hcs |-> <<>>,
   lastReasoning |-> Null, reasoningAccum |-> <<>>]

StreamActive == stream.pc \notin {"idle", "done"}
StreamOpen == stream.pc # "idle"

\* Variant: the loop stops only on a negative balance.
StreamInsufficientNegative(balance) == balance < 0

\* if (balance < minBet)
StreamInsufficient(balance) == balance < MIN_BET_CENTS

\* The request arrives: the provider lookup, then (await) ensureAIModel.
StreamRequest(modelId, bodyMaxBet, hands) ==
  /\ ~StreamOpen
  /\ conn' = [conn EXCEPT !.s = "open"]
  /\ IF ~getAIProvider(modelId)
     THEN /\ stream' = [StreamIdle EXCEPT !.pc = "done", !.modelId = modelId,
                                         !.date = today, !.result = "unknown"]
          /\ events' = [events EXCEPT !.s = <<Ev("error", <<"Unknown AI model">>)>>]
     ELSE /\ stream' = [StreamIdle EXCEPT !.pc = "get", !.modelId = modelId, !.date = today,
                                         !.totalHands = TotalHands(hands),
                                         !.effectiveMaxBet = EffectiveMaxBet(bodyMaxBet)]
          /\ events' = [events EXCEPT !.s = <<>>]
  /\ UNCHANGED <<today, dailyBankrolls, blackjackHands, vs, next3Bets, balanceCents, lastDailyDate, betsResponse, performanceBets, settle, clock, autoPlayState, vsLoop, handRuns, placement>>

\* let balance = await getOrCreateDailyBankroll(modelId, "blackjack", date)
StreamGetBankroll ==
  /\ stream.pc = "get"
  /\ dailyBankrolls' = getOrCreateDailyBankroll(dailyBankrolls, stream.modelId, stream.date)
  /\ stream' = [stream EXCEPT !.pc = "loop",
                              !.balance = dailyBankrolls'[Key(stream.modelId, stream.date)]]
  /\ UNCHANGED <<today, blackjackHands, vs, events, conn, next3Bets, balanceCents, lastDailyDate, betsResponse, performanceBets, settle, clock, autoPlayState, vsLoop, handRuns, placement>>

\* The head of the for loop up to the bet prompt: the bankroll check, hand_start, the deal.
StreamRoundStart ==
  /\ stream.pc = "loop"
  /\ IF stream.handIndex >= stream.totalHands
     THEN /\ stream' = [stream EXCEPT !.pc = "done", !.result = "done"]
          /\ Emit("s", <<Ev("done", <<>>)>>)
     ELSE IF StreamInsufficient(stream.balance)
     THEN /\ stream' = [stream EXCEPT !.pc = "done", !.result = "insufficient"]
          /\ Emit("s", <<Ev("error", <<"Insufficient bankroll">>), Ev("done", <<>>)>>)
     ELSE \E deck0 \in Shuffles :
            LET p1 == Top(deck0)
                d1 == Pop(deck0)
                p2 == Top(d1)
                d2 == Pop(d1)
                d3 == Pop(d2)
            IN /\ stream' = [stream EXCEPT !.pc = "bet", !.playerCards = <<p1, p2>>,
                                           !.dealerUpcard = Top(d2), !.dealerDown = Top(d3),
                                           !.deck = Pop(d3), !.started = @ + 1]
               /\ Emit("s", <<Ev("hand_start", <<stream.handIndex + 1, stream.totalHands>>),
                              Ev("deal", <<>>)>>)
  /\ UNCHANGED <<today, dailyBankrolls, blackjackHands, vs, conn, next3Bets, balanceCents, lastDailyDate, betsResponse, performanceBets, settle, clock, autoPlayState, vsLoop, handRuns, placement>>

\* The agent's reply to the bet prompt, clamped.
StreamBet(betReply) ==
  /\ stream.pc = "bet"
  /\ LET handMaxBet == Min(stream.balance, stream.effectiveMaxBet)
         betCents == ClampBet(parseBetFromResponse(betReply), MIN_BET_CENTS, handMaxBet)
     IN /\ stream' = [stream EXCEPT !.pc = "play", !.betCents = betCents]
        /\ Emit("s", <<Ev("bet", <<>>)>>)
  /\ UNCHANGED <<today, dailyBankrolls, blackjackHands, vs, conn, next3Bets, balanceCents, lastDailyDate, betsResponse, performanceBets, settle, clock, autoPlayState, vsLoop, handRuns, placement>>

\* Variant: the dealer's events are sent ahead of the player's last decision.
StreamResolveDealerFirst(st, evs) ==
  LET turn == DealerTurn(st.deck, st.dealerUpcard, st.dealerDown)
      outcome == IF isBust(st.playerCards) THEN "loss"
                 ELSE resolveHand(st.playerCards, turn[1])
  IN /\ stream' = [st EXCEPT !.pc = "deduct", !.dealerCards = turn[1], !.outcome = outcome,
                             !.pnlCents = PnlCents(outcome, st.betCents)]
     /\ Emit("s", turn[2] \o evs)

\* The dealer's turn and the outcome, computed when the player's turn has ended.
StreamResolve(st, evs) ==
  LET turn == DealerTurn(st.deck, st.dealerUpcard, st.dealerDown)
      outcome == IF isBust(st.playerCards) THEN "loss"
                 ELSE resolveHand(st.playerCards, turn[1])
  IN /\ stream' = [st EXCEPT !.pc = "deduct", !.dealerCards = turn[1], !.outcome = outcome,
                             !.pnlCents = PnlCents(outcome, st.betCents)]
     /\ Emit("s", evs \o turn[2])

\* One pass of the while (true) player loop: the reply,
\* the decision event, the card on a hit; on stand or bust the dealer's turn follows
\* in the same synchronous stretch.
StreamReply(lastDecision, lastReasoning) ==
  /\ stream.pc = "play"
  /\ LET evs == <<Ev("decision", <<>>)>>
         st == [stream EXCEPT !.lastDecision = lastDecision,
                              !.lastReasoning = lastReasoning, !.reasoningAccum = <<>>]
     IN IF lastDecision # "hit"
        THEN StreamResolve(st, evs)
        ELSE LET newCard == Top(stream.deck)
                 hit == [st EXCEPT !.playerCards = Append(@, newCard), !.deck = Pop(@)]
                 evs2 == Append(evs, Ev("player_card", <<>>))
             IN IF isBust(hit.playerCards)
                THEN StreamResolve(hit, evs2)
                ELSE /\ stream' = hit
                     /\ Emit("s", evs2)
  /\ UNCHANGED <<today, dailyBankrolls, blackjackHands, vs, conn, next3Bets, balanceCents, lastDailyDate, betsResponse, performanceBets, settle, clock, autoPlayState, vsLoop, handRuns, placement>>

\* A pass whose reply is the decision string alone, with no reasoning.
StreamDecision(decision) == StreamReply(NormalizeDecision(decision), Null)

\* await deductBet(modelId, date, betCents): throws when the UPDATE matches no row;
\* the route's catch then sends an error event.
StreamDeduct ==
  /\ stream.pc = "deduct"
  /\ IF DeductAccepted(dailyBankrolls, stream.modelId, stream.date, stream.betCents)
     THEN /\ dailyBankrolls' = deductBet(dailyBankrolls, stream.modelId, stream.date, stream.betCents)
          /\ stream' = [stream EXCEPT !.pc = "credit"]
          /\ UNCHANGED events
     ELSE /\ UNCHANGED dailyBankrolls
          /\ stream' = [stream EXCEPT !.pc = "done", !.result = "threw"]
          /\ Emit("s", <<Ev("error", <<"Insufficient bankroll or no row">>)>>)
  /\ UNCHANGED <<today, blackjackHands, vs, conn, next3Bets, balanceCents, lastDailyDate, betsResponse, performanceBets, settle, clock, autoPlayState, vsLoop, handRuns, placement>>

\* await creditResult(modelId, date, pnlCents); balance = balance - betCents + pnlCents
StreamCredit ==
  /\ stream.pc = "credit"
  /\ dailyBankrolls' = creditResult(dailyBankrolls, stream.modelId, stream.date, stream.pnlCents)
  /\ stream' = [stream EXCEPT !.pc = "select",
                              !.balance = @ - stream.betCents + stream.pnlCents]
  /\ UNCHANGED <<today, blackjackHands, vs, events, conn, next3Bets, balanceCents, lastDailyDate, betsResponse, performanceBets, settle, clock, autoPlayState, vsLoop, handRuns, placement>>

\* SELECT balance_cents: balanceCentsAfter
StreamSelect ==
  /\ stream.pc = "select"
  /\ stream' = [stream EXCEPT !.pc = "insert",
                  !.balanceCentsAfter =
                     SelectBalance(dailyBankrolls, stream.modelId, stream.date, stream.balance)]
  /\ UNCHANGED <<today, dailyBankrolls, blackjackHands, vs, events, conn, next3Bets, balanceCents, lastDailyDate, betsResponse, performanceBets, settle, clock, autoPlayState, vsLoop, handRuns, placement>>

\* INSERT INTO blackjack_hands
StreamInsert ==
  /\ stream.pc = "insert"
  /\ blackjackHands' = InsertHand(blackjackHands, stream.modelId, stream.date,
                                  [HandRow(stream.betCents, stream.outcome, stream.pnlCents)
                                     EXCEPT !.reasoning = stream.lastReasoning])
  /\ stream' = [stream EXCEPT !.pc = "end", !.settled = @ + 1]
  /\ UNCHANGED <<today, dailyBankrolls, vs, events, conn, next3Bets, balanceCents, lastDailyDate, betsResponse, performanceBets, settle, clock, autoPlayState, vsLoop, handRuns, placement>>

\* Variant: the publication is awaited before the outcome event.
StreamEndRoundAwaits ==
  /\ stream.pc = "end"
  /\ stream' = [stream EXCEPT !.pc = "publish", !.hcs = Append(@, "flight")]
  /\ UNCHANGED <<today, dailyBankrolls, blackjackHands, vs, events, conn, next3Bets, balanceCents, lastDailyDate, betsResponse, performanceBets, settle, clock, autoPlayState, vsLoop, handRuns, placement>>

\* submitAiResult(...).catch(() => {}) starts the publication and is not awaited; the
\* outcome and hand_end events follow in the same stretch and the loop goes to its
\* next pass.
StreamEndRound ==
  /\ stream.pc = "end"
  /\ Emit("s", <<Ev("outcome", <<>>),
                 Ev("hand_end", <<stream.handIndex + 1>>)>>)
  /\ stream' = [stream EXCEPT !.pc = "loop", !.handIndex = @ + 1, !.deck = <<>>,
                              !.hcs = Append(@, "flight"),
                              !.lastReasoning = Null, !.playerCards = <<>>, !.dealerUpcard = <<>>,
                              !.dealerDown = <<>>, !.dealerCards = <<>>, !.betCents = 0,
                              !.lastDecision = "stand", !.outcome = "", !.pnlCents = 0,
                              !.balanceCentsAfter = 0]
  /\ UNCHANGED <<today, dailyBankrolls, blackjackHands, vs, conn, next3Bets, balanceCents, lastDailyDate, betsResponse, performanceBets, settle, clock, autoPlayState, vsLoop, handRuns, placement>>

\* The places where the run's next synchronous stretch begins by calling onEvent.
StreamEmitsNext == stream.pc \in {"loop", "bet", "play", "end"}

\* The consumer of the single-agent stream goes away.
StreamDisconnect ==
  /\ StreamActive
  /\ conn.s = "open"
  /\ conn' = [conn EXCEPT !.s = "lost"]
  /\ UNCHANGED <<today, dailyBankrolls, blackjackHands, stream, vs, events, next3Bets, balanceCents, lastDailyDate, betsResponse, performanceBets, settle, clock, autoPlayState, vsLoop, handRuns, placement>>

\* send() of the single-agent route is a bare res.write: when the write on the lost
\* connection throws, the exception leaves onEvent and playHandsStream; the route's
\* catch calls send once more (errorSent: that write went through).
StreamSendThrows(errorSent) ==
  /\ conn.s = "lost"
  /\ StreamEmitsNext
  /\ stream' = [stream EXCEPT !.pc = "done", !.result = "send-threw"]
  /\ IF errorSent THEN Emit("s", <<Ev("error", <<"write failed">>)>>) ELSE UNCHANGED events
  /\ UNCHANGED <<today, dailyBankrolls, blackjackHands, vs, conn, next3Bets, balanceCents, lastDailyDate, betsResponse, performanceBets, settle, clock, autoPlayState, vsLoop, handRuns, placement>>

\* finally { res.end() }: the response is over.
StreamEnd ==
  /\ stream.pc = "done"
  /\ stream' = StreamIdle
  /\ events' = [events EXCEPT !.s = <<>>]
  /\ conn' = [conn EXCEPT !.s = "open"]
  /\ UNCHANGED <<today, dailyBankrolls, blackjackHands, vs, next3Bets, balanceCents, lastDailyDate, betsResponse, performanceBets, settle, clock, autoPlayState, vsLoop, handRuns, placement>>

-----------------------------------------------------------------------------
(* autoPlayBlackjack: the module's state and the claim of the pending hand *)

\* let autoPlayState = { nextHandAt: null, lastHandAt: null, ..., pendingHand: null }
AutoPlayIdle == [nextHandAt |-> Null, lastHandAt |-> Null, pendingHand |-> Null]

\* providers[0].id and providers[1].id, the pair the loop plays
AutoPlayPair == <<"openai-gpt-4o-mini", "openai-gpt-4o">>

\* claimPendingHand: whether the models are those of the pending hand, in either order
ClaimMatches(st, modelAId, modelBId) ==
  /\ st.pendingHand # Null
  /\ \/ st.pendingHand[1].modelAId = modelAId /\ st.pendingHand[1].modelBId = modelBId
     \/ st.pendingHand[1].modelAId = modelBId /\ st.pendingHand[1].modelBId = modelAId

\* claimPendingHand: the state it leaves; a match clears the pending hand
claimPendingHand(st, modelAId, modelBId) ==
  IF ClaimMatches(st, modelAId, modelBId) THEN [st EXCEPT !.pendingHand = Null] ELSE st

\* The history of a claim: the claimer will run the hand it claimed
ClaimedRuns(st, modelAId, modelBId) ==
  IF ClaimMatches(st, modelAId, modelBId)
  THEN {[at |-> st.pendingHand[1].at, by |-> "client"]}
  ELSE {}

-----------------------------------------------------------------------------
(* POST /play-stream with X-Blackjack-Mode: vs: playHandsStreamVs *)

VsIdle ==
  [pc |-> "idle", modelIdA |-> "", modelIdB |-> "", date |-> 0, balanceA |-> 0,
   balanceB |-> 0, totalHands |-> 0, handIndex |-> 0, effectiveMaxBet |-> 0,
   deck |-> <<>>, cardsA |-> <<>>, cardsB |-> <<>>, dealerUpcard |-> <<>>,
   dealerDown |-> <<>>, dealerCards |-> <<>>, betA |-> 0, betB |-> 0,
   outcomeA |-> "", outcomeB |-> "", pnlA |-> 0, pnlB |-> 0,
   balanceCentsAfterA |-> 0, balanceCentsAfterB |-> 0,
   started |-> 0, deductedA |-> 0, deductedB |-> 0, settledA |-> 0, settledB |-> 0,
   result |-> "", hcs |-> <<>>, claimed |-> FALSE]

VsActive == vs.pc \notin {"idle", "done"}
VsOpen == vs.pc # "idle"

\* if (balanceA < minBet || balanceB < minBet)
VsInsufficient(balanceA, balanceB) == balanceA < MIN_BET_CENTS \/ balanceB < MIN_BET_CENTS

\* The route turns away modelIdA === modelIdB with a 400 and calls claimPendingHand
\* before playHandsStreamVs, which starts with the provider lookups.
VsRequest(modelIdA, modelIdB, hands) ==
  /\ ~VsOpen
  /\ modelIdA # modelIdB
  /\ conn' = [conn EXCEPT !.v = "open"]
  /\ autoPlayState' = claimPendingHand(autoPlayState, modelIdA, modelIdB)
  /\ handRuns' = handRuns \cup ClaimedRuns(autoPlayState, modelIdA, modelIdB)
  /\ IF ~getAIProvider(modelIdA) \/ ~getAIProvider(modelIdB)
     THEN /\ vs' = [VsIdle EXCEPT !.pc = "done", !.modelIdA = modelIdA,
                                 !.modelIdB = modelIdB, !.date = today,
                                 !.result = "unknown",
                                 !.claimed = ClaimMatches(autoPlayState, modelIdA, modelIdB)]
          /\ events' = [events EXCEPT !.v = <<Ev("error", <<"Unknown model">>)>>]
     ELSE /\ vs' = [VsIdle EXCEPT !.pc = "getA", !.modelIdA = modelIdA,
                                 !.modelIdB = modelIdB, !.date = today,
                                 !.totalHands = TotalHands(hands),
                                 !.effectiveMaxBet = EffectiveMaxBet(0),
                                 !.claimed = ClaimMatches(autoPlayState, modelIdA, modelIdB)]
          /\ events' = [events EXCEPT !.v = <<>>]
  /\ UNCHANGED <<today, dailyBankrolls, blackjackHands, stream, next3Bets, balanceCents, lastDailyDate, betsResponse, performanceBets, settle, clock, vsLoop, placement>>

VsGetBankrollA ==
  /\ vs.pc = "getA"
  /\ dailyBankrolls' = getOrCreateDailyBankroll(dailyBankrolls, vs.modelIdA, vs.date)
  /\ vs' = [vs EXCEPT !.pc = "getB",
                      !.balanceA = dailyBankrolls'[Key(vs.modelIdA, vs.date)]]
  /\ UNCHANGED <<today, blackjackHands, stream, events, conn, next3Bets, balanceCents, lastDailyDate, betsResponse, performanceBets, settle, clock, autoPlayState, vsLoop, handRuns, placement>>

VsGetBankrollB ==
  /\ vs.pc = "getB"
  /\ dailyBankrolls' = getOrCreateDailyBankroll(dailyBankrolls, vs.modelIdB, vs.date)
  /\ vs' = [vs EXCEPT !.pc = "loop",
                      !.balanceB = dailyBankrolls'[Key(vs.modelIdB, vs.date)]]
  /\ UNCHANGED <<today, blackjackHands, stream, events, conn, next3Bets, balanceCents, lastDailyDate, betsResponse, performanceBets, settle, clock, autoPlayState, vsLoop, handRuns, placement>>

\* The head of the for loop up to the first bet prompt. One deck serves both agents
\* and the dealer.
VsRoundStart ==
  /\ vs.pc = "loop"
  /\ IF vs.handIndex >= vs.totalHands
     THEN /\ vs' = [vs EXCEPT !.pc = "done", !.result = "done"]
          /\ Emit("v", <<Ev("done", <<>>)>>)
     ELSE IF VsInsufficient(vs.balanceA, vs.balanceB)
     THEN /\ vs' = [vs EXCEPT !.pc = "done", !.result = "insufficient"]
          /\ Emit("v", <<Ev("error", <<"Insufficient bankroll">>), Ev("done", <<>>)>>)
     ELSE \E deck0 \in Shuffles :
            LET a1 == Top(deck0)
                d1 == Pop(deck0)
                a2 == Top(d1)
                d2 == Pop(d1)
                b1 == Top(d2)
                d3 == Pop(d2)
                b2 == Top(d3)
                d4 == Pop(d3)
                d5 == Pop(d4)
            IN /\ vs' = [vs EXCEPT !.pc = "betA", !.cardsA = <<a1, a2>>,
                                   !.cardsB = <<b1, b2>>, !.dealerUpcard = Top(d4),
                                   !.dealerDown = Top(d5), !.deck = Pop(d5),
                                   !.started = @ + 1]
               /\ Emit("v", <<Ev("hand_start", <<vs.handIndex + 1, vs.totalHands>>),
                              Ev("deal_vs", <<>>)>>)
  /\ UNCHANGED <<today, dailyBankrolls, blackjackHands, stream, conn, next3Bets, balanceCents, lastDailyDate, betsResponse, performanceBets, settle, clock, autoPlayState, vsLoop, handRuns, placement>>

\* askBet: handMaxBet = Math.min(balance, effectiveMaxBet), then the clamp
askBet(balance, effectiveMaxBet, betReply) ==
  ClampBet(parseBetFromResponse(betReply), MIN_BET_CENTS, Min(balance, effectiveMaxBet))

VsBetA(betReply) ==
  /\ vs.pc = "betA"
  /\ vs' = [vs EXCEPT !.pc = "betB",
                      !.betA = askBet(vs.balanceA, vs.effectiveMaxBet, betReply)]
  /\ Emit("v", <<Ev("bet", <<"a">>)>>)
  /\ UNCHANGED <<today, dailyBankrolls, blackjackHands, stream, conn, next3Bets, balanceCents, lastDailyDate, betsResponse, performanceBets, settle, clock, autoPlayState, vsLoop, handRuns, placement>>

VsBetB(betReply) ==
  /\ vs.pc = "betB"
  /\ vs' = [vs EXCEPT !.pc = "playA",
                      !.betB = askBet(vs.balanceB, vs.effectiveMaxBet, betReply)]
  /\ Emit("v", <<Ev("bet", <<"b">>)>>)
  /\ UNCHANGED <<today, dailyBankrolls, blackjackHands, stream, conn, next3Bets, balanceCents, lastDailyDate, betsResponse, performanceBets, settle, clock, autoPlayState, vsLoop, handRuns, placement>>

\* One pass of playTurn("a"): the decision, the card on a hit.
VsDecisionA(decision) ==
  /\ vs.pc = "playA"
  /\ LET lastDecision == NormalizeDecision(decision)
         evs == <<Ev("decision", <<"a">>)>>
     IN IF lastDecision # "hit"
        THEN /\ vs' = [vs EXCEPT !.pc = "playB"]
             /\ Emit("v", evs)
        ELSE LET cards == Append(vs.cardsA, Top(vs.deck))
             IN /\ vs' = [vs EXCEPT !.cardsA = cards, !.deck = Pop(@),
                                    !.pc = IF isBust(cards) THEN "playB" ELSE "playA"]
                /\ Emit("v", Append(evs, Ev("player_card", <<"a">>)))
  /\ UNCHANGED <<today, dailyBankrolls, blackjackHands, stream, conn, next3Bets, balanceCents, lastDailyDate, betsResponse, performanceBets, settle, clock, autoPlayState, vsLoop, handRuns, placement>>

\* The dealer's turn and both outcomes, once B's turn has ended.
VsResolve(st, evs) ==
  LET turn == DealerTurn(st.deck, st.dealerUpcard, st.dealerDown)
      outcomeA == IF isBust(st.cardsA) THEN "loss" ELSE resolveHand(st.cardsA, turn[1])
      outcomeB == IF isBust(st.cardsB) THEN "loss" ELSE resolveHand(st.cardsB, turn[1])
  IN /\ vs' = [st EXCEPT !.pc = "deductA", !.dealerCards = turn[1],
                         !.outcomeA = outcomeA, !.outcomeB = outcomeB,
                         !.pnlA = PnlCents(outcomeA, st.betA),
                         !.pnlB = PnlCents(outcomeB, st.betB)]
     /\ Emit("v", evs \o turn[2])

\* One pass of playTurn("b"); when it ends the dealer plays in the same stretch.
VsDecisionB(decision) ==
  /\ vs.pc = "playB"
  /\ LET lastDecision == NormalizeDecision(decision)
         evs == <<Ev("decision", <<"b">>)>>
     IN IF lastDecision # "hit"
        THEN VsResolve(vs, evs)
        ELSE LET hit == [vs EXCEPT !.cardsB = Append(@, Top(vs.deck)), !.deck = Pop(@)]
                 evs2 == Append(evs, Ev("player_card", <<"b">>))
             IN IF isBust(hit.cardsB)
                THEN VsResolve(hit, evs2)
                ELSE /\ vs' = hit
                     /\ Emit("v", evs2)
  /\ UNCHANGED <<today, dailyBankrolls, blackjackHands, stream, conn, next3Bets, balanceCents, lastDailyDate, betsResponse, performanceBets, settle, clock, autoPlayState, vsLoop, handRuns, placement>>

\* A settlement call of the VS round threw: the route's catch reports it through
\* sendVs unless the stream is closed.
VsThrow(message) ==
  /\ vs' = [vs EXCEPT !.pc = "done", !.result = "threw"]
  /\ IF conn.v = "open" THEN Emit("v", <<Ev("error", <<message>>)>>) ELSE UNCHANGED events

\* Variant: the settlement starts with B's debit.
VsDeductBFirst ==
  /\ vs.pc = "deductA"
  /\ IF DeductAccepted(dailyBankrolls, vs.modelIdB, vs.date, vs.betB)
     THEN /\ dailyBankrolls' = deductBet(dailyBankrolls, vs.modelIdB, vs.date, vs.betB)
          /\ vs' = [vs EXCEPT !.pc = "creditA", !.deductedB = @ + 1]
          /\ UNCHANGED events
     ELSE /\ UNCHANGED dailyBankrolls
          /\ VsThrow("Insufficient bankroll or no row")
  /\ UNCHANGED <<today, blackjackHands, stream, conn, next3Bets, balanceCents, lastDailyDate, betsResponse, performanceBets, settle, clock, autoPlayState, vsLoop, handRuns, placement>>

\* await deductBet(modelIdA, date, betA.betCents)
VsDeductA ==
  /\ vs.pc = "deductA"
  /\ IF DeductAccepted(dailyBankrolls, vs.modelIdA, vs.date, vs.betA)
     THEN /\ dailyBankrolls' = deductBet(dailyBankrolls, vs.modelIdA, vs.date, vs.betA)
          /\ vs' = [vs EXCEPT !.pc = "creditA", !.deductedA = @ + 1]
          /\ UNCHANGED events
     ELSE /\ UNCHANGED dailyBankrolls
          /\ VsThrow("Insufficient bankroll or no row")
  /\ UNCHANGED <<today, blackjackHands, stream, conn, next3Bets, balanceCents, lastDailyDate, betsResponse, performanceBets, settle, clock, autoPlayState, vsLoop, handRuns, placement>>

\* await creditResult(modelIdA, date, pnlA)
VsCreditA ==
  /\ vs.pc = "creditA"
  /\ dailyBankrolls' = creditResult(dailyBankrolls, vs.modelIdA, vs.date, vs.pnlA)
  /\ vs' = [vs EXCEPT !.pc = "deductB"]
  /\ UNCHANGED <<today, blackjackHands, stream, events, conn, next3Bets, balanceCents, lastDailyDate, betsResponse, performanceBets, settle, clock, autoPlayState, vsLoop, handRuns, placement>>

\* await deductBet(modelIdB, date, betB.betCents)
VsDeductB ==
  /\ vs.pc = "deductB"
  /\ IF DeductAccepted(dailyBankrolls, vs.modelIdB, vs.date, vs.betB)
     THEN /\ dailyBankrolls' = deductBet(dailyBankrolls, vs.modelIdB, vs.date, vs.betB)
          /\ vs' = [vs EXCEPT !.pc = "creditB", !.deductedB = @ + 1]
          /\ UNCHANGED events
     ELSE /\ UNCHANGED dailyBankrolls
          /\ VsThrow("Insufficient bankroll or no row")
  /\ UNCHANGED <<today, blackjackHands, stream, conn, next3Bets, balanceCents, lastDailyDate, betsResponse, performanceBets, settle, clock, autoPlayState, vsLoop, handRuns, placement>>

\* await creditResult(modelIdB, date, pnlB); then both local balances
VsCreditB ==
  /\ vs.pc = "creditB"
  /\ dailyBankrolls' = creditResult(dailyBankrolls, vs.modelIdB, vs.date, vs.pnlB)
  /\ vs' = [vs EXCEPT !.pc = "selectA",
                      !.balanceA = @ - vs.betA + vs.pnlA,
                      !.balanceB = @ - vs.betB + vs.pnlB]
  /\ UNCHANGED <<today, blackjackHands, stream, events, conn, next3Bets, balanceCents, lastDailyDate, betsResponse, performanceBets, settle, clock, autoPlayState, vsLoop, handRuns, placement>>

VsSelectA ==
  /\ vs.pc = "selectA"
  /\ vs' = [vs EXCEPT !.pc = "selectB",
              !.balanceCentsAfterA = SelectBalance(dailyBankrolls, vs.modelIdA, vs.date, vs.balanceA)]
  /\ UNCHANGED <<today, dailyBankrolls, blackjackHands, stream, events, conn, next3Bets, balanceCents, lastDailyDate, betsResponse, performanceBets, settle, clock, autoPlayState, vsLoop, handRuns, placement>>

VsSelectB ==
  /\ vs.pc = "selectB"
  /\ vs' = [vs EXCEPT !.pc = "insertA",
              !.balanceCentsAfterB = SelectBalance(dailyBankrolls, vs.modelIdB, vs.date, vs.balanceB)]
  /\ UNCHANGED <<today, dailyBankrolls, blackjackHands, stream, events, conn, next3Bets, balanceCents, lastDailyDate, betsResponse, performanceBets, settle, clock, autoPlayState, vsLoop, handRuns, placement>>

VsInsertA ==
  /\ vs.pc = "insertA"
  /\ blackjackHands' = InsertHand(blackjackHands, vs.modelIdA, vs.date,
                                  HandRow(vs.betA, vs.outcomeA, vs.pnlA))
  /\ vs' = [vs EXCEPT !.pc = "insertB", !.settledA = @ + 1]
  /\ UNCHANGED <<today, dailyBankrolls, stream, events, conn, next3Bets, balanceCents, lastDailyDate, betsResponse, performanceBets, settle, clock, autoPlayState, vsLoop, handRuns, placement>>

VsInsertB ==
  /\ vs.pc = "insertB"
  /\ blackjackHands' = InsertHand(blackjackHands, vs.modelIdB, vs.date,
                                  HandRow(vs.betB, vs.outcomeB, vs.pnlB))
  /\ vs' = [vs EXCEPT !.pc = "end", !.settledB = @ + 1]
  /\ UNCHANGED <<today, dailyBankrolls, stream, events, conn, next3Bets, balanceCents, lastDailyDate, betsResponse, performanceBets, settle, clock, autoPlayState, vsLoop, handRuns, placement>>

\* submitAiResult(...).catch(() => {}) starts the publication and is not awaited; the
\* outcome_vs and hand_end events follow and the loop goes to its next pass.
VsEndRound ==
  /\ vs.pc = "end"
  /\ Emit("v", <<Ev("outcome_vs", <<>>), Ev("hand_end", <<vs.handIndex + 1>>)>>)
  /\ vs' = [vs EXCEPT !.pc = "loop", !.handIndex = @ + 1, !.deck = <<>>,
                      !.hcs = Append(@, "flight"),
                      !.cardsA = <<>>, !.cardsB = <<>>, !.dealerUpcard = <<>>,
                      !.dealerDown = <<>>, !.dealerCards = <<>>, !.betA = 0, !.betB = 0,
                      !.outcomeA = "", !.outcomeB = "", !.pnlA = 0, !.pnlB = 0,
                      !.balanceCentsAfterA = 0, !.balanceCentsAfterB = 0]
  /\ UNCHANGED <<today, dailyBankrolls, blackjackHands, stream, conn, next3Bets, balanceCents, lastDailyDate, betsResponse, performanceBets, settle, clock, autoPlayState, vsLoop, handRuns, placement>>

\* The consumer of the VS stream goes away: res emits close, onClose sets
\* streamClosed, and sendVs returns without writing from then on.
VsDisconnect ==
  /\ VsActive
  /\ conn.v = "open"
  /\ conn' = [conn EXCEPT !.v = "lost"]
  /\ UNCHANGED <<today, dailyBankrolls, blackjackHands, stream, vs, events, next3Bets, balanceCents, lastDailyDate, betsResponse, performanceBets, settle, clock, autoPlayState, vsLoop, handRuns, placement>>

\* if (claimed) setAutoPlayLastHandAt() when playHandsStreamVs returned, and
\* finally { ... res.end() }: the response is over.
VsEnd ==
  /\ vs.pc = "done"
  /\ vs' = VsIdle
  /\ events' = [events EXCEPT !.v = <<>>]
  /\ conn' = [conn EXCEPT !.v = "open"]
  /\ autoPlayState' = IF vs.claimed /\ vs.result # "threw"
                      THEN [autoPlayState EXCEPT !.lastHandAt = <<clock>>]
                      ELSE autoPlayState
  /\ UNCHANGED <<today, dailyBankrolls, blackjackHands, stream, next3Bets, balanceCents, lastDailyDate, betsResponse, performanceBets, settle, clock, vsLoop, handRuns, placement>>

\* Settlement passes that may be in flight at once, and a pass that is not running
PassIds == {1, 2}
PassIdle == [pc |-> "idle", kind |-> "none", period |-> 0, rows |-> <<>>, i |-> 0,
             groups |-> <<>>, todo |-> <<>>, stateA |-> Null, stateB |-> Null,
             totals |-> Null, result |-> Null]
SettleIdle == [p \in PassIds |-> PassIdle]

\* runVsLoop before startAutoPlayBlackjack calls it: let handCount = 0
VsLoopIdle == [pc |-> "off", now |-> 0, handCount |-> 0, wakeAt |-> 0, day |-> 0]

\* No POST /market/bet or /bet-next3 request in flight; status is the last response's
PlacementIdle ==
  [pc |-> "idle", kind |-> "none", amountCents |-> 0, status |-> 0,
   args |-> [domain |-> "", modelId |-> "", modelBId |-> "", period |-> 0, direction |-> ""]]

RECURSIVE SumLen(_, _)
SumLen(f, keys) ==
  IF keys = {} THEN 0
  ELSE LET k == CHOOSE x \in keys : TRUE IN Len(f[k]) + SumLen(f, keys \ {k})

TotalRows == SumLen(blackjackHands, DOMAIN blackjackHands)

Init ==
  /\ today = 1
  /\ dailyBankrolls = <<>>
  /\ blackjackHands = [k \in ModelIds \X Dates |-> <<>>]
  /\ stream = StreamIdle
  /\ vs = VsIdle
  /\ events = [s |-> <<>>, v |-> <<>>]
  /\ conn = [s |-> "open", v |-> "open"]
  /\ next3Bets = <<>>
  /\ balanceCents = 0
  /\ lastDailyDate = 0
  /\ betsResponse = <<>>
  /\ performanceBets = <<>>
  /\ settle = SettleIdle
  /\ clock = 0
  /\ autoPlayState = AutoPlayIdle
  /\ vsLoop = VsLoopIdle
  /\ handRuns = {}
  /\ placement = PlacementIdle

Midnight ==
  /\ today < MaxDay
  /\ today' = today + 1
  /\ UNCHANGED <<dailyBankrolls, blackjackHands, stream, vs, events, conn,
                 next3Bets, balanceCents, lastDailyDate, betsResponse, performanceBets, settle, clock, autoPlayState, vsLoop, handRuns, placement>>

-----------------------------------------------------------------------------
(* the bettor's balance: user-balance *)

\* The numbers of the balance are JS numbers: every comparison with NaN is false and
\* every sum or difference with NaN is NaN.  NaN is a value no sum of cents reaches.
NaN == 0 - 1000
NumLt(a, b) == a # NaN /\ b # NaN /\ a < b
NumLe(a, b) == a # NaN /\ b # NaN /\ a <= b
NumAdd(a, b) == IF a = NaN \/ b = NaN THEN NaN ELSE a + b
NumSub(a, b) == IF a = NaN \/ b = NaN THEN NaN ELSE a - b

\* claimDaily: throws when lastDailyDate === today()
ClaimDaily ==
  /\ lastDailyDate # today
  /\ lastDailyDate' = today
  /\ balanceCents' = NumAdd(balanceCents, USER_DAILY_CENTS)
  /\ UNCHANGED <<today, dailyBankrolls, blackjackHands, stream, vs, events, conn, next3Bets,
                 betsResponse, performanceBets, settle, clock, autoPlayState, vsLoop, handRuns, placement>>

\* deduct: whether it succeeds, and the balance it leaves
\*   if (amountCents <= 0) return true; if (balanceCents < amountCents) return false;
\*   balanceCents -= amountCents; return true
DeductOk(bal, amountCents) == NumLe(amountCents, 0) \/ ~NumLt(bal, amountCents)
deduct(bal, amountCents) ==
  IF NumLe(amountCents, 0) \/ NumLt(bal, amountCents) THEN bal ELSE NumSub(bal, amountCents)

\* credit: if (amountCents > 0) balanceCents += amountCents
credit(bal, amountCents) == IF NumLt(0, amountCents) THEN NumAdd(bal, amountCents) ELSE bal

-----------------------------------------------------------------------------
(* head-to-head wagers on the next three hands: placeNext3Bet, listNext3Bets *)

\* The hands a wager waits for, of each agent
NEXT3_HANDS == 3

\* getBlackjackDailyState reads, after its getOrCreateDailyBankroll: the count and
\* the P/L sum are over the hands of that one date.
getBlackjackDailyState(db, hands, modelId, date) ==
  [balanceCents |-> db[Key(modelId, date)],
   handsPlayed |-> Len(hands[Key(modelId, date)]),
   pnlCents |-> SumPnl(hands[Key(modelId, date)])]

\* POST /market/bet-next3: 400 on a non-positive amount or when the bettor's balance
\* is short; else the stake is deducted and placeNext3Bet snapshots both agents'
\* counts of today.
PlaceNext3Bet(modelAId, modelBId, direction, amountCents) ==
  /\ amountCents > 0
  /\ DeductOk(balanceCents, amountCents)
  /\ balanceCents' = deduct(balanceCents, amountCents)
  /\ LET dbA == getOrCreateDailyBankroll(dailyBankrolls, modelAId, today)
         dbB == getOrCreateDailyBankroll(dbA, modelBId, today)
         stateA == getBlackjackDailyState(dbA, blackjackHands, modelAId, today)
         stateB == getBlackjackDailyState(dbB, blackjackHands, modelBId, today)
     IN /\ dailyBankrolls' = dbB
        /\ next3Bets' = Append(next3Bets,
             [model_a_id |-> modelAId, model_b_id |-> modelBId, direction |-> direction,
              amount_cents |-> amountCents, outcome |-> "pending", payout_cents |-> Null,
              hands_a_at_bet |-> stateA.handsPlayed, pnl_a_at_bet |-> stateA.pnlCents,
              hands_b_at_bet |-> stateB.handsPlayed, pnl_b_at_bet |-> stateB.pnlCents,
              date |-> today])
  /\ UNCHANGED <<today, blackjackHands, stream, vs, events, conn, lastDailyDate, betsResponse, performanceBets, settle, clock, autoPlayState, vsLoop, handRuns, placement>>

\* SELECT direction, amount_cents ... WHERE model_a_id, model_b_id, date: the pool's
\* total staked on a direction
RECURSIVE PoolTotal(_, _, _, _, _)
PoolTotal(bets, modelAId, modelBId, date, direction) ==
  IF bets = <<>> THEN 0
  ELSE LET row == Head(bets)
           rest == PoolTotal(Tail(bets), modelAId, modelBId, date, direction)
       IN IF row.model_a_id = modelAId /\ row.model_b_id = modelBId /\ row.date = date
             /\ row.direction = direction
          THEN row.amount_cents + rest
          ELSE rest

\* Math.round(x / y) for x >= 0, y > 0
RoundDiv(x, y) == (2 * x + y) \div (2 * y)

\* Variant: equal gains count as a loss of the wager.
Next3ResultTieLoses(bets, bet, stateA, stateB) ==
  [outcome |-> IF (bet.direction = "a_wins"
                     /\ stateA.pnlCents - bet.pnl_a_at_bet > stateB.pnlCents - bet.pnl_b_at_bet)
                  \/ (bet.direction = "b_wins"
                     /\ stateB.pnlCents - bet.pnl_b_at_bet > stateA.pnlCents - bet.pnl_a_at_bet)
               THEN "win" ELSE "loss",
   payout_cents |-> <<0>>]

\* The outcome and payout of a wager whose condition is met.
Next3Result(bets, bet, stateA, stateB) ==
  LET gainA == stateA.pnlCents - bet.pnl_a_at_bet
      gainB == stateB.pnlCents - bet.pnl_b_at_bet
      aWins == gainA > gainB
      bWins == gainB > gainA
      win == (bet.direction = "a_wins" /\ aWins) \/ (bet.direction = "b_wins" /\ bWins)
      totalA == PoolTotal(bets, bet.model_a_id, bet.model_b_id, bet.date, "a_wins")
      totalB == PoolTotal(bets, bet.model_a_id, bet.model_b_id, bet.date, "b_wins")
      totalPool == totalA + totalB
      totalWinning == IF aWins THEN totalA ELSE totalB
      divisor == IF totalWinning > 0 THEN totalWinning ELSE 1
  IN IF gainA = gainB THEN [outcome |-> "push", payout_cents |-> <<bet.amount_cents>>]
     ELSE IF win
     THEN [outcome |-> "win",
           payout_cents |-> <<RoundDiv(bet.amount_cents * totalPool, divisor)>>]
     ELSE [outcome |-> "loss", payout_cents |-> <<0>>]

\* Variant: one agent's further hands are enough.
Next3DueEither(bet, stateA, stateB) ==
  \/ stateA.handsPlayed >= bet.hands_a_at_bet + NEXT3_HANDS
  \/ stateB.handsPlayed >= bet.hands_b_at_bet + NEXT3_HANDS

\* The condition of listNext3Bets on a pending row: both agents have played the
\* further hands, counted on the wager's date.
Next3Due(bet, stateA, stateB) ==
  /\ stateA.handsPlayed >= bet.hands_a_at_bet + NEXT3_HANDS
  /\ stateB.handsPlayed >= bet.hands_b_at_bet + NEXT3_HANDS

\* One pass of the for loop of listNext3Bets over a selected row: the row after it.
\* The passes do not feed one another: the hands are not touched, and the pool query
\* reads directions and amounts only.
SettleRow(bets, bet, db, hands) ==
  IF bet.outcome # "pending" THEN bet
  ELSE LET dbA == getOrCreateDailyBankroll(db, bet.model_a_id, bet.date)
           dbB == getOrCreateDailyBankroll(dbA, bet.model_b_id, bet.date)
           stateA == getBlackjackDailyState(dbA, hands, bet.model_a_id, bet.date)
           stateB == getBlackjackDailyState(dbB, hands, bet.model_b_id, bet.date)
       IN IF Next3Due(bet, stateA, stateB)
          THEN LET r == Next3Result(bets, bet, stateA, stateB)
               IN [bet EXCEPT !.outcome = r.outcome, !.payout_cents = r.payout_cents]
          ELSE bet

\* The bankroll rows the passes create: one per agent and date of a pending row.
RECURSIVE SettleBankrolls(_, _)
SettleBankrolls(rows, db) ==
  IF rows = <<>> THEN db
  ELSE LET bet == Head(rows)
       IN IF bet.outcome # "pending" THEN SettleBankrolls(Tail(rows), db)
          ELSE SettleBankrolls(Tail(rows),
                 getOrCreateDailyBankroll(
                   getOrCreateDailyBankroll(db, bet.model_a_id, bet.date),
                   bet.model_b_id, bet.date))

\* creditUserBalance(payout_cents) of every row a pass settled
RECURSIVE SettleCredits(_, _, _)
SettleCredits(before, after, bal) ==
  IF before = <<>> THEN bal
  ELSE SettleCredits(Tail(before), Tail(after),
         IF Head(before).outcome = "pending" /\ Head(after).outcome # "pending"
         THEN credit(bal, Head(after).payout_cents[1])
         ELSE bal)

\* GET /market/bets: the pass, then the second SELECT is the response
ListNext3Bets ==
  /\ next3Bets' = [i \in 1..Len(next3Bets) |->
                     SettleRow(next3Bets, next3Bets[i], dailyBankrolls, blackjackHands)]
  /\ dailyBankrolls' = SettleBankrolls(next3Bets, dailyBankrolls)
  /\ balanceCents' = SettleCredits(next3Bets, next3Bets', balanceCents)
  /\ betsResponse' = next3Bets'
  /\ UNCHANGED <<today, blackjackHands, stream, vs, events, conn, lastDailyDate,
                 performanceBets, settle, clock, autoPlayState, vsLoop, handRuns, placement>>

-----------------------------------------------------------------------------
(* The performance market: POST /market/bet, GET /market/leaderboard *)

\* creditWatchAd
WATCH_AD_CENTS == 1

CreditWatchAd ==
  /\ balanceCents' = NumAdd(balanceCents, WATCH_AD_CENTS)
  /\ UNCHANGED <<today, dailyBankrolls, blackjackHands, stream, vs, events, conn, next3Bets,
                 lastDailyDate, betsResponse, performanceBets, settle, clock, autoPlayState, vsLoop, handRuns, placement>>

\* POST /market/bet: 400 on a non-positive amount or when the bettor's balance is
\* short; else the stake is deducted and placePerformanceBet inserts a pending row.
\* The period is whatever date the caller names.
PlacePerformanceBet(domain, modelId, period, direction, amountCents) ==
  /\ amountCents > 0
  /\ DeductOk(balanceCents, amountCents)
  /\ balanceCents' = deduct(balanceCents, amountCents)
  /\ performanceBets' = Append(performanceBets,
       [domain |-> domain, model_id |-> modelId, period |-> period,
        direction |-> direction, amount_cents |-> amountCents,
        outcome |-> "pending", payout_cents |-> 0])
  /\ UNCHANGED <<today, dailyBankrolls, blackjackHands, stream, vs, events, conn, next3Bets,
                 lastDailyDate, betsResponse, settle, clock, autoPlayState, vsLoop, handRuns, placement>>

\* SELECT ... FROM performance_bets WHERE domain, model_id, period, summed over one
\* direction ("outperform" is yes, anything else is no)
RECURSIVE PerfPoolTotal(_, _, _, _, _)
PerfPoolTotal(bets, domain, modelId, period, yes) ==
  IF bets = <<>> THEN 0
  ELSE LET b == Head(bets)
           rest == PerfPoolTotal(Tail(bets), domain, modelId, period, yes)
       IN IF b.domain = domain /\ b.model_id = modelId /\ b.period = period
             /\ (b.direction = "outperform") = yes
          THEN b.amount_cents + rest
          ELSE rest

\* Variant: the selection of a pass takes the rows of the period whatever their outcome.
PerfPendingAll(bets, domain, period) ==
  {i \in 1..Len(bets) : bets[i].domain = domain /\ bets[i].period = period}

\* SELECT ... WHERE outcome = 'pending' AND domain = $1 AND period = $2: the rows
\* a pass of settleBetsForPeriod works on
PerfPending(bets, domain, period) ==
  {i \in 1..Len(bets) :
     bets[i].outcome = "pending" /\ bets[i].domain = domain /\ bets[i].period = period}

\* Variant: a zero P/L counts as outperforming.
IsOutperformOrEven(pnlCents) == pnlCents >= 0

\* const isOutperform = state.pnlCents > 0
IsOutperform(pnlCents) == pnlCents > 0

\* Variant: a winner gets the stake back and nothing of the pool.
PoolPayoutStakeBack(stake, totalPool, totalWinningStake) == stake

\* The parimutuel share: Math.round((amount_cents * totalPool) / divisor)
PoolPayout(stake, totalPool, totalWinningStake) ==
  RoundDiv(stake * totalPool, IF totalWinningStake > 0 THEN totalWinningStake ELSE 1)

\* The outcome and payout settleBetsForPeriod gives a row, from the pool of all the
\* rows of its agent and period and the agent's P/L of the period.
PerfResultFrom(bet, totalYes, totalNo, pnlCents) ==
  LET totalPool == totalYes + totalNo
      isOutperform == IsOutperform(pnlCents)
      totalWinning == IF isOutperform THEN totalYes ELSE totalNo
      win == IF bet.direction = "outperform" THEN isOutperform ELSE ~isOutperform
  IN [outcome |-> IF win THEN "win" ELSE "loss",
      payout_cents |-> IF win THEN PoolPayout(bet.amount_cents, totalPool, totalWinning)
                       ELSE 0]

\* The same with the pool read from the table
PerfResult(bets, bet, pnlCents) ==
  PerfResultFrom(bet,
                 PerfPoolTotal(bets, bet.domain, bet.model_id, bet.period, TRUE),
                 PerfPoolTotal(bets, bet.domain, bet.model_id, bet.period, FALSE),
                 pnlCents)

\* settleBetsForPeriod(domain, period) on the table: the UPDATE of every selected row.
\* The updates do not feed one another: the pool query reads directions and amounts.
SettlePerfRows(bets, domain, period, hands) ==
  IF domain # "blackjack" THEN bets
  ELSE [i \in 1..Len(bets) |->
          IF i \in PerfPending(bets, domain, period)
          THEN LET r == PerfResult(bets, bets[i], SumPnl(hands[Key(bets[i].model_id, period)]))
               IN [bets[i] EXCEPT !.outcome = r.outcome, !.payout_cents = r.payout_cents]
          ELSE bets[i]]

\* creditUserBalance(payout_cents) after the UPDATE of every selected row
RECURSIVE PerfCredits(_, _, _)
PerfCredits(after, selected, bal) ==
  IF selected = {} THEN bal
  ELSE LET i == CHOOSE x \in selected : TRUE
       IN PerfCredits(after, selected \ {i}, credit(bal, after[i].payout_cents))

\* The bankroll rows getBlackjackDailyState creates for a set of agents on a date
RECURSIVE StateBankrolls(_, _, _)
StateBankrolls(models, date, db) ==
  IF models = {} THEN db
  ELSE LET m == CHOOSE x \in models : TRUE
       IN StateBankrolls(models \ {m}, date, getOrCreateDailyBankroll(db, m, date))

\* Variant: the day that is running counts as over.
PeriodNotAfter(period, now) == period <= now

\* if (period < today): both are YYYY-MM-DD strings, which compare as their days do
PeriodBefore(period, now) == period < now

\* GET /market/leaderboard?domain&period: settleBetsForPeriod when the period is
\* before today, then getLeaderboard, which reads the state of every provider.
GetLeaderboard(domain, period) ==
  LET settles == PeriodBefore(period, today) /\ domain = "blackjack"
      selected == IF settles THEN PerfPending(performanceBets, domain, period) ELSE {}
      after == IF settles
               THEN SettlePerfRows(performanceBets, domain, period, blackjackHands)
               ELSE performanceBets
      settledModels == {performanceBets[i].model_id : i \in selected}
      listed == IF domain = "blackjack" THEN REGISTERED ELSE {}
  IN /\ performanceBets' = after
     /\ balanceCents' = PerfCredits(after, selected, balanceCents)
     /\ dailyBankrolls' = StateBankrolls(settledModels \cup listed, period, dailyBankrolls)
     /\ UNCHANGED <<today, blackjackHands, stream, vs, events, conn, next3Bets,
                    lastDailyDate, betsResponse, settle, clock, autoPlayState, vsLoop, handRuns, placement>>

-----------------------------------------------------------------------------
(* The settlement passes statement by statement: a step is one storage call and  *)
(* the synchronous code after it, up to the next storage call.  The calls inside *)
(* getBlackjackDailyState are taken as one.                                      *)

\* The first pending row of a selection at or after position i, Len + 1 if none:
\* "if (bet.outcome !== 'pending') continue" over the rows as they were selected
RECURSIVE NextPending(_, _)
NextPending(rows, i) ==
  IF i > Len(rows) THEN i
  ELSE IF rows[i].outcome = "pending" THEN i
  ELSE NextPending(rows, i + 1)

\* listNext3Bets moves on to the row at or after position i, or to its last SELECT
L3Advance(ps, i) ==
  LET n == NextPending(ps.rows, i)
  IN [ps EXCEPT !.i = n, !.pc = IF n > Len(ps.rows) THEN "list" ELSE "stateA",
                !.stateA = Null, !.stateB = Null, !.result = Null]

\* GET /market/bets -> listNext3Bets: the first SELECT
L3Start(p) ==
  /\ settle[p].pc = "idle"
  /\ settle' = [settle EXCEPT ![p] =
                  L3Advance([PassIdle EXCEPT !.kind = "next3", !.rows = next3Bets], 1)]
  /\ UNCHANGED <<today, dailyBankrolls, blackjackHands, stream, vs, events, conn, next3Bets,
                 balanceCents, lastDailyDate, betsResponse, performanceBets, clock, autoPlayState, vsLoop, handRuns, placement>>

\* const stateA = await getBlackjackDailyState(bet.model_a_id, betDate)
L3StateA(p) ==
  /\ settle[p].pc = "stateA"
  /\ LET bet == settle[p].rows[settle[p].i]
         db == getOrCreateDailyBankroll(dailyBankrolls, bet.model_a_id, bet.date)
     IN /\ dailyBankrolls' = db
        /\ settle' = [settle EXCEPT
             ![p].stateA = <<getBlackjackDailyState(db, blackjackHands, bet.model_a_id, bet.date)>>,
             ![p].pc = "stateB"]
  /\ UNCHANGED <<today, blackjackHands, stream, vs, events, conn, next3Bets,
                 balanceCents, lastDailyDate, betsResponse, performanceBets, clock, autoPlayState, vsLoop, handRuns, placement>>

\* const stateB = await getBlackjackDailyState(bet.model_b_id, betDate), then the
\* condition and the outcome; a win goes on to the pool query
L3StateB(p) ==
  /\ settle[p].pc = "stateB"
  /\ LET ps == settle[p]
         bet == ps.rows[ps.i]
         db == getOrCreateDailyBankroll(dailyBankrolls, bet.model_b_id, bet.date)
         stateA == ps.stateA[1]
         stateB == getBlackjackDailyState(db, blackjackHands, bet.model_b_id, bet.date)
         r == Next3Result(next3Bets, bet, stateA, stateB)
     IN /\ dailyBankrolls' = db
        /\ settle' = [settle EXCEPT ![p] =
             IF ~Next3Due(bet, stateA, stateB) THEN L3Advance(ps, ps.i + 1)
             ELSE IF r.outcome = "win"
             THEN [ps EXCEPT !.stateB = <<stateB>>, !.pc = "pool"]
             ELSE [ps EXCEPT !.stateB = <<stateB>>, !.result = <<r>>, !.pc = "update"]]
  /\ UNCHANGED <<today, blackjackHands, stream, vs, events, conn, next3Bets,
                 balanceCents, lastDailyDate, betsResponse, performanceBets, clock, autoPlayState, vsLoop, handRuns, placement>>

\* The pool query of a winning wager, and its payout
L3Pool(p) ==
  /\ settle[p].pc = "pool"
  /\ LET ps == settle[p]
     IN settle' = [settle EXCEPT
          ![p].result = <<Next3Result(next3Bets, ps.rows[ps.i], ps.stateA[1], ps.stateB[1])>>,
          ![p].pc = "update"]
  /\ UNCHANGED <<today, dailyBankrolls, blackjackHands, stream, vs, events, conn, next3Bets,
                 balanceCents, lastDailyDate, betsResponse, performanceBets, clock, autoPlayState, vsLoop, handRuns, placement>>

\* UPDATE next_3_bets SET outcome, payout_cents WHERE id; creditUserBalance(payout_cents)
L3Update(p) ==
  /\ settle[p].pc = "update" /\ settle[p].kind = "next3"
  /\ LET ps == settle[p]
         r == ps.result[1]
     IN /\ next3Bets' = [next3Bets EXCEPT ![ps.i].outcome = r.outcome,
                                          ![ps.i].payout_cents = r.payout_cents]
        /\ balanceCents' = credit(balanceCents, r.payout_cents[1])
        /\ settle' = [settle EXCEPT ![p] = L3Advance(ps, ps.i + 1)]
  /\ UNCHANGED <<today, dailyBankrolls, blackjackHands, stream, vs, events, conn,
                 lastDailyDate, betsResponse, performanceBets, clock, autoPlayState, vsLoop, handRuns, placement>>

\* The last SELECT of listNext3Bets is the response
L3List(p) ==
  /\ settle[p].pc = "list"
  /\ betsResponse' = next3Bets
  /\ settle' = [settle EXCEPT ![p] = PassIdle]
  /\ UNCHANGED <<today, dailyBankrolls, blackjackHands, stream, vs, events, conn, next3Bets,
                 balanceCents, lastDailyDate, performanceBets, clock, autoPlayState, vsLoop, handRuns, placement>>

\* The positions of a table's rows that satisfy a test, in table order
IndexSeq(n) == [k \in 1..n |-> k]

\* byModel: the agents of the selected rows, in the order they first occur
RECURSIVE FirstModels(_, _)
FirstModels(rows, idxs) ==
  IF idxs = <<>> THEN <<>>
  ELSE LET m == rows[Head(idxs)].model_id
           IsOther(k) == rows[k].model_id # m
       IN <<m>> \o FirstModels(rows, SelectSeq(Tail(idxs), IsOther))

\* GET /market/leaderboard of a period before today -> settleBetsForPeriod: the
\* pending query and the grouping; with nothing pending getLeaderboard is next
SbpStart(p, period) ==
  /\ settle[p].pc = "idle"
  /\ PeriodBefore(period, today)
  /\ LET InPending(k) == k \in PerfPending(performanceBets, "blackjack", period)
         pending == SelectSeq(IndexSeq(Len(performanceBets)), InPending)
         groups == FirstModels(performanceBets, pending)
     IN settle' = [settle EXCEPT ![p] =
          [PassIdle EXCEPT !.kind = "perf", !.period = period, !.rows = performanceBets,
                           !.todo = pending, !.groups = groups,
                           !.pc = IF groups = <<>> THEN "board" ELSE "allBets"]]
  /\ UNCHANGED <<today, dailyBankrolls, blackjackHands, stream, vs, events, conn, next3Bets,
                 balanceCents, lastDailyDate, betsResponse, performanceBets, clock, autoPlayState, vsLoop, handRuns, placement>>

\* The allBets query of the group's agent: totalYes and totalNo
SbpAllBets(p) ==
  /\ settle[p].pc = "allBets"
  /\ LET ps == settle[p]
         m == Head(ps.groups)
     IN settle' = [settle EXCEPT
          ![p].totals = <<PerfPoolTotal(performanceBets, "blackjack", m, ps.period, TRUE),
                          PerfPoolTotal(performanceBets, "blackjack", m, ps.period, FALSE)>>,
          ![p].pc = "state"]
  /\ UNCHANGED <<today, dailyBankrolls, blackjackHands, stream, vs, events, conn, next3Bets,
                 balanceCents, lastDailyDate, betsResponse, performanceBets, clock, autoPlayState, vsLoop, handRuns, placement>>

\* const state = await getBlackjackDailyState(modelId, period)
SbpState(p) ==
  /\ settle[p].pc = "state"
  /\ LET ps == settle[p]
         m == Head(ps.groups)
         db == getOrCreateDailyBankroll(dailyBankrolls, m, ps.period)
     IN /\ dailyBankrolls' = db
        /\ settle' = [settle EXCEPT
             ![p].stateA = <<getBlackjackDailyState(db, blackjackHands, m, ps.period)>>,
             ![p].pc = "update"]
  /\ UNCHANGED <<today, blackjackHands, stream, vs, events, conn, next3Bets,
                 balanceCents, lastDailyDate, betsResponse, performanceBets, clock, autoPlayState, vsLoop, handRuns, placement>>

\* The next pending row of the group: UPDATE performance_bets SET outcome,
\* payout_cents WHERE id; creditUserBalance(payout_cents)
SbpUpdate(p) ==
  /\ settle[p].pc = "update" /\ settle[p].kind = "perf"
  /\ LET ps == settle[p]
         m == Head(ps.groups)
         IsOfGroup(k) == ps.rows[k].model_id = m
         k == Head(SelectSeq(ps.todo, IsOfGroup))
         todo == SelectSeq(ps.todo, LAMBDA x : x # k)
         r == PerfResultFrom(ps.rows[k], ps.totals[1], ps.totals[2], ps.stateA[1].pnlCents)
         groupDone == SelectSeq(todo, IsOfGroup) = <<>>
         groups == IF groupDone THEN Tail(ps.groups) ELSE ps.groups
     IN /\ performanceBets' = [performanceBets EXCEPT ![k].outcome = r.outcome,
                                                      ![k].payout_cents = r.payout_cents]
        /\ balanceCents' = credit(balanceCents, r.payout_cents)
        /\ settle' = [settle EXCEPT ![p] =
             [ps EXCEPT !.todo = todo, !.groups = groups,
                        !.pc = IF ~groupDone THEN "update"
                               ELSE IF groups = <<>> THEN "board" ELSE "allBets"]]
  /\ UNCHANGED <<today, dailyBankrolls, blackjackHands, stream, vs, events, conn, next3Bets,
                 lastDailyDate, betsResponse, clock, autoPlayState, vsLoop, handRuns, placement>>

\* getLeaderboard reads the state of every provider, and the response is sent
SbpBoard(p) ==
  /\ settle[p].pc = "board"
  /\ dailyBankrolls' = StateBankrolls(REGISTERED, settle[p].period, dailyBankrolls)
  /\ settle' = [settle EXCEPT ![p] = PassIdle]
  /\ UNCHANGED <<today, blackjackHands, stream, vs, events, conn, next3Bets,
                 balanceCents, lastDailyDate, betsResponse, performanceBets, clock, autoPlayState, vsLoop, handRuns, placement>>

-----------------------------------------------------------------------------
(* The orchestrator, one request at a time *)

Busy == StreamOpen \/ VsOpen

\* The next pass of the loop would deal a round.
StreamDeals ==
  stream.pc = "loop" /\ stream.handIndex < stream.totalHands /\ stream.balance >= MIN_BET_CENTS

VsDeals ==
  /\ vs.pc = "loop" /\ vs.handIndex < vs.totalHands
  /\ vs.balanceA >= MIN_BET_CENTS /\ vs.balanceB >= MIN_BET_CENTS

Next ==
  \/ \E m \in ModelIds, b \in PlayBets, deck0 \in Shuffles, d \in DecisionReplies :
       ~Busy /\ TotalRows < MaxTotal /\ PostPlayBet(m, b, deck0, d)
  \/ \E m \in ModelIds, r \in BetReplies, deck0 \in Shuffles, d \in DecisionReplies :
       ~Busy /\ TotalRows < MaxTotal /\ PostPlayAsk(m, r, deck0, d)
  \/ \E m \in ModelIds, mb \in MaxBetInputs, h \in HandsInputs :
       ~Busy /\ TotalRows < MaxTotal /\ StreamRequest(m, mb, h)
  \/ StreamGetBankroll
  \/ (StreamDeals => TotalRows < MaxTotal) /\ StreamRoundStart
  \/ \E r \in BetReplies : StreamBet(r)
  \/ \E d \in DecisionReplies : StreamDecision(d)
  \/ StreamDeduct
  \/ StreamCredit
  \/ StreamSelect
  \/ StreamInsert
  \/ StreamEndRound
  \/ StreamDisconnect
  \/ \E sent \in BOOLEAN : StreamSendThrows(sent)
  \/ StreamEnd
  \/ \E a \in ModelIds, b \in ModelIds, h \in HandsInputs :
       ~Busy /\ TotalRows < MaxTotal /\ VsRequest(a, b, h)
  \/ VsGetBankrollA
  \/ VsGetBankrollB
  \/ (VsDeals => TotalRows + 2 <= MaxTotal) /\ VsRoundStart
  \/ \E r \in BetReplies : VsBetA(r)
  \/ \E r \in BetReplies : VsBetB(r)
  \/ \E d \in DecisionReplies : VsDecisionA(d)
  \/ \E d \in DecisionReplies : VsDecisionB(d)
  \/ VsDeductA
  \/ VsCreditA
  \/ VsDeductB
  \/ VsCreditB
  \/ VsSelectA
  \/ VsSelectB
  \/ VsInsertA
  \/ VsInsertB
  \/ VsEndRound
  \/ VsDisconnect
  \/ VsEnd
  \/ ~Busy /\ Midnight

Spec == Init /\ [][Next]_vars

-----------------------------------------------------------------------------
(* One VS run with POST /play requests arriving while it is in flight *)

\* Rounds of the run, and POST /play requests served during it
MaxRaceRounds == 1
MaxRacePlays == 1

RacePlays == TotalRows - (vs.settledA + vs.settledB)

NextRace ==
  \/ \E a \in ModelIds, b \in ModelIds, h \in HandsInputs :
       TotalRows = 0 /\ VsRequest(a, b, h)
  \/ VsGetBankrollA
  \/ VsGetBankrollB
  \/ (VsDeals => vs.started < MaxRaceRounds) /\ VsRoundStart
  \/ \E r \in BetReplies : VsBetA(r)
  \/ \E r \in BetReplies : VsBetB(r)
  \/ \E d \in DecisionReplies : VsDecisionA(d)
  \/ \E d \in DecisionReplies : VsDecisionB(d)
  \/ VsDeductA
  \/ VsCreditA
  \/ VsDeductB
  \/ VsCreditB
  \/ VsSelectA
  \/ VsSelectB
  \/ VsInsertA
  \/ VsInsertB
  \/ VsEndRound
  \/ VsDisconnect
  \/ VsEnd
  \/ \E m \in REGISTERED, b \in PlayBets, deck0 \in Shuffles, d \in DecisionReplies :
       VsActive /\ RacePlays < MaxRacePlays /\ PostPlayBet(m, b, deck0, d)

SpecRace == Init /\ [][NextRace]_vars

-----------------------------------------------------------------------------
(* The market over hands played through POST /play *)

MarketShuffles == {DeckPush}
MarketPair == <<"openai-gpt-4o-mini", "openai-gpt-4o">>
Directions == {"a_wins", "b_wins"}
Stakes == {2}
MaxUserCents == 2

\* One day of the market.
NextMarket ==
  \/ \E m \in REGISTERED, deck0 \in MarketShuffles, d \in DecisionReplies :
       /\ Len(blackjackHands[Key(m, today)]) < MaxRows
       /\ PostPlayBet(m, MIN_BET_CENTS, deck0, d)
  \/ \E dir \in Directions, amt \in Stakes :
       Len(next3Bets) < MaxNext3 /\ PlaceNext3Bet(MarketPair[1], MarketPair[2], dir, amt)
  \/ ListNext3Bets
  \/ balanceCents + USER_DAILY_CENTS <= MaxUserCents /\ ClaimDaily

SpecMarket == Init /\ [][NextMarket]_vars

\* The market across midnight, with agents that always stand.
StandReplies == {<<"s", "t", "a", "n", "d">>}
MaxMarketRows == 6

NextMarketDays ==
  \/ \E m \in REGISTERED, deck0 \in MarketShuffles, d \in StandReplies :
       /\ TotalRows < MaxMarketRows
       /\ Len(blackjackHands[Key(m, today)]) < MaxRows
       /\ PostPlayBet(m, MIN_BET_CENTS, deck0, d)
  \/ \E dir \in Directions, amt \in Stakes :
       Len(next3Bets) < MaxNext3 /\ PlaceNext3Bet(MarketPair[1], MarketPair[2], dir, amt)
  \/ ListNext3Bets
  \/ balanceCents + USER_DAILY_CENTS <= MaxUserCents /\ ClaimDaily
  \/ Midnight

SpecMarketDays == Init /\ [][NextMarketDays]_vars

-----------------------------------------------------------------------------
(* The performance market across midnight *)

MaxPerf == 2                 \* performance wagers placed
MaxPerfRows == 2             \* settled hands over all agents and dates
MaxPerfUserCents == 4        \* the bettor's balance up to which it is topped up
PerfModels == {"openai-gpt-4o-mini"}
PerfDomains == {"blackjack", "crop"}
PerfDirections == {"outperform", "underperform"}
PerfStakes == {1, 3}
PerfShuffles == {DeckPush, DeckExample}   \* a hit wins on the first, busts on the second
PerfReplies == {<<"H", "i", "t">>}

NextPerf ==
  \/ \E m \in PerfModels, deck0 \in PerfShuffles, d \in PerfReplies :
       /\ TotalRows < MaxPerfRows
       /\ PostPlayBet(m, MIN_BET_CENTS, deck0, d)
  \/ \E m \in PerfModels, per \in Dates, dir \in PerfDirections, amt \in PerfStakes :
       Len(performanceBets) < MaxPerf /\ PlacePerformanceBet("blackjack", m, per, dir, amt)
  \/ \E dom \in PerfDomains, per \in Dates : GetLeaderboard(dom, per)
  \/ balanceCents + USER_DAILY_CENTS <= MaxPerfUserCents /\ ClaimDaily
  \/ balanceCents + WATCH_AD_CENTS <= MaxPerfUserCents /\ CreditWatchAd
  \/ Midnight

SpecPerf == Init /\ [][NextPerf]_vars

\* One pool: wagers on the agent's performance of the day they are placed.
MaxPoolBets == 3             \* wagers in the pool
MaxPoolRows == 1             \* settled hands

NextPerfPool ==
  \/ \E m \in PerfModels, deck0 \in PerfShuffles, d \in PerfReplies :
       /\ TotalRows < MaxPoolRows
       /\ PostPlayBet(m, MIN_BET_CENTS, deck0, d)
  \/ \E m \in PerfModels, dir \in PerfDirections, amt \in PerfStakes :
       Len(performanceBets) < MaxPoolBets /\ PlacePerformanceBet("blackjack", m, today, dir, amt)
  \/ \E per \in Dates : GetLeaderboard("blackjack", per)
  \/ balanceCents + USER_DAILY_CENTS <= MaxPerfUserCents /\ ClaimDaily
  \/ balanceCents + WATCH_AD_CENTS <= MaxPerfUserCents /\ CreditWatchAd
  \/ Midnight

SpecPerfPool == Init /\ [][NextPerfPool]_vars

\* Both markets, one request at a time, with agents that always stand.
MaxSettlePerf == 2           \* performance wagers placed
SettleStakes == {1}
SettlePeriods == {1}

NextSettle ==
  \/ \E m \in REGISTERED, deck0 \in MarketShuffles, d \in StandReplies :
       /\ TotalRows < MaxMarketRows
       /\ Len(blackjackHands[Key(m, today)]) < MaxRows
       /\ PostPlayBet(m, MIN_BET_CENTS, deck0, d)
  \/ \E dir \in Directions, amt \in Stakes :
       Len(next3Bets) < MaxNext3 /\ PlaceNext3Bet(MarketPair[1], MarketPair[2], dir, amt)
  \/ ListNext3Bets
  \/ \E m \in PerfModels, per \in SettlePeriods, dir \in PerfDirections, amt \in SettleStakes :
       Len(performanceBets) < MaxSettlePerf
         /\ PlacePerformanceBet("blackjack", m, per, dir, amt)
  \/ \E per \in Dates : GetLeaderboard("blackjack", per)
  \/ balanceCents + USER_DAILY_CENTS <= MaxPerfUserCents /\ ClaimDaily
  \/ Midnight

SpecSettle == Init /\ [][NextSettle]_vars

\* Both markets with settlement passes that overlap.  The day's play and the
\* wagers come first, one request at a time: one agent hits and wins every hand,
\* the other stands and pushes.  Then the passes run statement by statement, two at
\* once.
MaxRacePerf == 1             \* performance wagers placed
RaceReplies ==
  [m \in REGISTERED |->
     IF m = MarketPair[1] THEN <<"H", "i", "t">> ELSE <<"s", "t", "a", "n", "d">>]

PassesIdle == \A p \in PassIds : settle[p].pc = "idle"

RaceReady ==
  /\ today = MaxDay
  /\ Len(next3Bets) = MaxNext3
  /\ Len(performanceBets) = MaxRacePerf
  /\ TotalRows = MaxMarketRows

NextSettleRace ==
  \/ \E m \in REGISTERED, deck0 \in MarketShuffles :
       /\ PassesIdle
       /\ TotalRows < MaxMarketRows
       /\ Len(blackjackHands[Key(m, today)]) < MaxRows
       /\ PostPlayBet(m, MIN_BET_CENTS, deck0, RaceReplies[m])
  \/ \E dir \in Directions, amt \in Stakes :
       /\ PassesIdle
       /\ Len(next3Bets) < MaxNext3
       /\ PlaceNext3Bet(MarketPair[1], MarketPair[2], dir, amt)
  \/ \E m \in PerfModels, per \in SettlePeriods, dir \in PerfDirections, amt \in SettleStakes :
       /\ PassesIdle
       /\ Len(performanceBets) < MaxRacePerf
       /\ PlacePerformanceBet("blackjack", m, per, dir, amt)
  \/ PassesIdle /\ balanceCents + USER_DAILY_CENTS <= MaxPerfUserCents /\ ClaimDaily
  \/ PassesIdle /\ Midnight
  \/ \E p \in PassIds :
       \/ RaceReady /\ L3Start(p)
       \/ L3StateA(p)
       \/ L3StateB(p)
       \/ L3Pool(p)
       \/ L3Update(p)
       \/ L3List(p)
       \/ \E per \in Dates : RaceReady /\ SbpStart(p, per)
       \/ SbpAllBets(p)
       \/ SbpState(p)
       \/ SbpUpdate(p)
       \/ SbpBoard(p)

SpecSettleRace == Init /\ [][NextSettleRace]_vars

\* A single-agent run and a VS run in flight together, each statement of either one
\* step: the two runs share an agent, so their debits and credits meet on one row.
LedgerHands == {1}
LedgerStreamModels == {"openai-gpt-4o-mini"}

NextLedgerRace ==
  \/ \E m \in LedgerStreamModels, h \in LedgerHands : StreamRequest(m, 0, h)
  \/ StreamGetBankroll
  \/ StreamRoundStart
  \/ \E r \in BetReplies : StreamBet(r)
  \/ \E d \in DecisionReplies : StreamDecision(d)
  \/ StreamDeduct
  \/ StreamCredit
  \/ StreamSelect
  \/ StreamInsert
  \/ StreamEndRound
  \/ \E a \in REGISTERED, b \in REGISTERED, h \in LedgerHands : VsRequest(a, b, h)
  \/ VsGetBankrollA
  \/ VsGetBankrollB
  \/ VsRoundStart
  \/ \E r \in BetReplies : VsBetA(r)
  \/ \E r \in BetReplies : VsBetB(r)
  \/ \E d \in DecisionReplies : VsDecisionA(d)
  \/ \E d \in DecisionReplies : VsDecisionB(d)
  \/ VsDeductA
  \/ VsCreditA
  \/ VsDeductB
  \/ VsCreditB
  \/ VsSelectA
  \/ VsSelectB
  \/ VsInsertA
  \/ VsInsertB
  \/ VsEndRound

SpecLedgerRace == Init /\ [][NextLedgerRace]_vars

\* The runs with a provider that has askStream: the reply to a decision prompt
\* arrives as reasoning fragments ahead of the decision.
MaxChunks == 2               \* reasoning fragments sent in one run
MaxEventRows == 2            \* settled hands in all
EventHands == {1, 2}
EventBetReplies == {[marker |-> FALSE, milli |-> 0]}

Chunks(evs) == Cardinality({i \in 1..Len(evs) : evs[i].type = "reasoning_chunk"})

\* while (!next.done) { onEvent({ type: "reasoning_chunk", text: chunk }); ... }
StreamChunk ==
  /\ stream.pc = "play"
  /\ Chunks(events.s) < MaxChunks
  /\ Emit("s", <<Ev("reasoning_chunk", <<>>)>>)
  /\ UNCHANGED <<today, dailyBankrolls, blackjackHands, stream, vs, conn, next3Bets, balanceCents, lastDailyDate, betsResponse, performanceBets, settle, clock, autoPlayState, vsLoop, handRuns, placement>>

\* playTurn: onEv({ type: "reasoning_chunk", player, text: chunk })
VsChunk ==
  /\ vs.pc \in {"playA", "playB"}
  /\ Chunks(events.v) < MaxChunks
  /\ Emit("v", <<Ev("reasoning_chunk", <<IF vs.pc = "playA" THEN "a" ELSE "b">>)>>)
  /\ UNCHANGED <<today, dailyBankrolls, blackjackHands, stream, vs, conn, next3Bets, balanceCents, lastDailyDate, betsResponse, performanceBets, settle, clock, autoPlayState, vsLoop, handRuns, placement>>

NextEvents ==
  \/ \E m \in ModelIds, h \in EventHands :
       ~Busy /\ TotalRows < MaxEventRows /\ StreamRequest(m, 0, h)
  \/ StreamGetBankroll
  \/ (StreamDeals => TotalRows < MaxEventRows) /\ StreamRoundStart
  \/ \E r \in EventBetReplies : StreamBet(r)
  \/ StreamChunk
  \/ \E d \in DecisionReplies : StreamDecision(d)
  \/ StreamDeduct
  \/ StreamCredit
  \/ StreamSelect
  \/ StreamInsert
  \/ StreamEndRound
  \/ StreamEnd
  \/ \E a \in ModelIds, b \in ModelIds, h \in EventHands :
       ~Busy /\ TotalRows < MaxEventRows /\ VsRequest(a, b, h)
  \/ VsGetBankrollA
  \/ VsGetBankrollB
  \/ (VsDeals => TotalRows + 2 <= MaxEventRows) /\ VsRoundStart
  \/ \E r \in EventBetReplies : VsBetA(r)
  \/ \E r \in EventBetReplies : VsBetB(r)
  \/ VsChunk
  \/ \E d \in DecisionReplies : VsDecisionA(d)
  \/ \E d \in DecisionReplies : VsDecisionB(d)
  \/ VsDeductA
  \/ VsCreditA
  \/ VsDeductB
  \/ VsCreditB
  \/ VsSelectA
  \/ VsSelectB
  \/ VsInsertA
  \/ VsInsertB
  \/ VsEndRound
  \/ VsEnd

SpecEvents == Init /\ [][NextEvents]_vars

\* The engine on its own: a deck of distinct cards, a deal, the player's hits, the
\* dealer's play and the resolution, with the hands kept in the record of the
\* single-agent run.
EngineDeckLen == 6           \* cards of the deck that are looked at
EngineCards ==
  { Card("A","S"), Card("A","H"), Card("K","D"), Card("Q","C"), Card("J","H"),
    Card("9","C"), Card("6","H"), Card("5","S") }
EngineDecks ==
  {deck \in [1..EngineDeckLen -> EngineCards] :
     \A i \in 1..EngineDeckLen, j \in 1..EngineDeckLen : i < j => deck[i] # deck[j]}

\* The deck holds the cards dealerPlays will pop.
RECURSIVE DeckServes(_, _)
DeckServes(deck, hand) ==
  IF handValue(hand) >= 17 THEN TRUE
  ELSE deck # <<>> /\ DeckServes(Pop(deck), Append(hand, Top(deck)))

InitEngine ==
  /\ today = 1
  /\ dailyBankrolls = <<>>
  /\ blackjackHands = [k \in ModelIds \X Dates |-> <<>>]
  /\ \E deck0 \in EngineDecks : stream = [StreamIdle EXCEPT !.pc = "engine", !.deck = deck0]
  /\ vs = VsIdle
  /\ events = [s |-> <<>>, v |-> <<>>]
  /\ conn = [s |-> "open", v |-> "open"]
  /\ next3Bets = <<>>
  /\ balanceCents = 0
  /\ lastDailyDate = 0
  /\ betsResponse = <<>>
  /\ performanceBets = <<>>
  /\ settle = SettleIdle
  /\ clock = 0
  /\ autoPlayState = AutoPlayIdle
  /\ vsLoop = VsLoopIdle
  /\ handRuns = {}
  /\ placement = PlacementIdle

EngineStep(next) ==
  /\ stream' = next
  /\ UNCHANGED <<today, dailyBankrolls, blackjackHands, vs, events, conn, next3Bets, balanceCents, lastDailyDate, betsResponse, performanceBets, settle, clock, autoPlayState, vsLoop, handRuns, placement>>

\* playerCards = [deck.pop(), deck.pop()]; dealerUpcard = deck.pop(); dealerDown = deck.pop()
EngineDeal ==
  /\ stream.pc = "engine"
  /\ LET d1 == Pop(stream.deck)
         d2 == Pop(d1)
         d3 == Pop(d2)
     IN EngineStep([stream EXCEPT !.pc = "turn",
                                  !.playerCards = <<Top(stream.deck), Top(d1)>>,
                                  !.dealerUpcard = Top(d2), !.dealerDown = Top(d3),
                                  !.dealerCards = <<Top(d2), Top(d3)>>,
                                  !.deck = Pop(d3)])

\* playerCards.push(deck.pop())
EngineHit ==
  /\ stream.pc = "turn"
  /\ ~isBust(stream.playerCards)
  /\ stream.deck # <<>>
  /\ EngineStep([stream EXCEPT !.playerCards = Append(@, Top(stream.deck)),
                               !.deck = Pop(@)])

\* dealerPlays(deck, dealerCards)
EngineDealer ==
  /\ stream.pc = "turn"
  /\ DeckServes(stream.deck, stream.dealerCards)
  /\ LET played == dealerPlays(stream.deck, stream.dealerCards)
     IN EngineStep([stream EXCEPT !.pc = "dealer", !.dealerCards = played[1],
                                  !.deck = played[2]])

\* resolveHand(playerCards, dealerCards)
EngineResolve ==
  /\ stream.pc = "dealer"
  /\ EngineStep([stream EXCEPT !.pc = "resolved",
                               !.outcome = resolveHand(stream.playerCards,
                                                       stream.dealerCards)])

NextEngine == EngineDeal \/ EngineHit \/ EngineDealer \/ EngineResolve

SpecEngine == InitEngine /\ [][NextEngine]_vars

\* A single-agent run whose play prompts are answered with the texts of PlayReplies.
MaxReplyRows == 2            \* settled hands in all

NextReplies ==
  \/ \E m \in REGISTERED : ~StreamOpen /\ TotalRows < MaxReplyRows /\ StreamRequest(m, 0, 1)
  \/ StreamGetBankroll
  \/ (StreamDeals => TotalRows < MaxReplyRows) /\ StreamRoundStart
  \/ \E r \in EventBetReplies : StreamBet(r)
  \/ \E content \in PlayReplies : StreamDecision(parseStructuredResponse(content))
  \/ StreamDeduct
  \/ StreamCredit
  \/ StreamSelect
  \/ StreamInsert
  \/ StreamEndRound
  \/ StreamEnd

SpecReplies == Init /\ [][NextReplies]_vars

-----------------------------------------------------------------------------
(* The odds series of a market: getOddsHistory, getNext3OddsHistory *)

\* Math.round(pct * 10) / 10 of the percentage 100 * side / total, or 50 when the
\* total is zero; the value is held in tenths of a percent.
ImpliedPct(side, total) == IF total > 0 THEN RoundDiv(1000 * side, total) ELSE 500

\* Variant: only the wagers still pending are selected.
OddsRowsPending(bets, domain, modelId, period) ==
  SelectSeq(bets, LAMBDA row : /\ row.domain = domain
                               /\ row.model_id = modelId
                               /\ row.period = period
                               /\ row.outcome = "pending")

\* SELECT direction, amount_cents, created_at FROM performance_bets WHERE domain,
\* model_id, period ORDER BY created_at ASC. created_at is the clock at the INSERT, so
\* the rows come back in the order they were inserted.
OddsRows(bets, domain, modelId, period) ==
  SelectSeq(bets, LAMBDA row : /\ row.domain = domain
                               /\ row.model_id = modelId
                               /\ row.period = period)

\* The loop over the selected rows, from the running totals of each side
RECURSIVE OddsPoints(_, _, _)
OddsPoints(rows, totalYes, totalNo) ==
  IF rows = <<>> THEN <<>>
  ELSE LET row == Head(rows)
           yes == IF row.direction = "outperform" THEN totalYes + row.amount_cents
                  ELSE totalYes
           no == IF row.direction = "outperform" THEN totalNo
                 ELSE totalNo + row.amount_cents
       IN <<[impliedYesPct |-> ImpliedPct(yes, yes + no),
             totalYesCents |-> yes, totalNoCents |-> no]>>
          \o OddsPoints(Tail(rows), yes, no)

getOddsHistory(bets, domain, modelId, period) ==
  OddsPoints(OddsRows(bets, domain, modelId, period), 0, 0)

\* SELECT direction, amount_cents, created_at FROM next_3_bets WHERE model_a_id,
\* model_b_id, date ORDER BY created_at ASC
Next3OddsRows(bets, modelAId, modelBId, date) ==
  SelectSeq(bets, LAMBDA row : /\ row.model_a_id = modelAId
                               /\ row.model_b_id = modelBId
                               /\ row.date = date)

RECURSIVE Next3OddsPoints(_, _, _)
Next3OddsPoints(rows, totalA, totalB) ==
  IF rows = <<>> THEN <<>>
  ELSE LET row == Head(rows)
           a == IF row.direction = "a_wins" THEN totalA + row.amount_cents ELSE totalA
           b == IF row.direction = "a_wins" THEN totalB ELSE totalB + row.amount_cents
       IN <<[impliedAWinsPct |-> ImpliedPct(a, a + b),
             totalACents |-> a, totalBCents |-> b]>>
          \o Next3OddsPoints(Tail(rows), a, b)

getNext3OddsHistory(bets, modelAId, modelBId, date) ==
  Next3OddsPoints(Next3OddsRows(bets, modelAId, modelBId, date), 0, 0)

MaxOddsPerf == 2             \* performance wagers placed
MaxOddsNext3 == 2            \* head-to-head wagers placed
MaxOddsUserCents == 2        \* the bettor's balance up to which it is topped up
OddsStakes == {1, 2}
OddsNext3Stakes == {1}

\* Wagers of both kinds on several markets, with the hands and the days that let
\* them settle; hands are played once the head-to-head wagers are placed, while one of
\* the day is open.
NextOdds ==
  \/ \E m \in REGISTERED, deck0 \in MarketShuffles, d \in StandReplies :
       /\ Len(next3Bets) = MaxOddsNext3
       /\ \E i \in 1..Len(next3Bets) :
            next3Bets[i].outcome = "pending" /\ next3Bets[i].date = today
       /\ TotalRows < MaxMarketRows
       /\ Len(blackjackHands[Key(m, today)]) < MaxRows
       /\ PostPlayBet(m, MIN_BET_CENTS, deck0, d)
  \/ \E dir \in Directions, amt \in OddsNext3Stakes :
       Len(next3Bets) < MaxOddsNext3 /\ PlaceNext3Bet(MarketPair[1], MarketPair[2], dir, amt)
  \/ ListNext3Bets
  \/ \E m \in PerfModels, per \in Dates, dir \in PerfDirections, amt \in OddsStakes :
       Len(performanceBets) < MaxOddsPerf
         /\ PlacePerformanceBet("blackjack", m, per, dir, amt)
  \/ \E per \in Dates : GetLeaderboard("blackjack", per)
  \/ balanceCents + WATCH_AD_CENTS <= MaxOddsUserCents /\ CreditWatchAd
  \/ Midnight

SpecOdds == Init /\ [][NextOdds]_vars

-----------------------------------------------------------------------------
(* The audit publication: submitAiResult *)

\* How a publication in flight ends: the message is submitted, or the submit fails
\* and the failure is logged and swallowed.
HcsEnds == {"sent", "failed"}

\* A publication of the single-agent run ends; nothing awaits it.
StreamHcsSettles(i, end) ==
  /\ i \in 1..Len(stream.hcs)
  /\ stream.hcs[i] = "flight"
  /\ stream' = [stream EXCEPT !.hcs[i] = end]
  /\ UNCHANGED <<today, dailyBankrolls, blackjackHands, vs, events, conn, next3Bets, balanceCents, lastDailyDate, betsResponse, performanceBets, settle, clock, autoPlayState, vsLoop, handRuns, placement>>

\* A publication of the VS run ends.
VsHcsSettles(i, end) ==
  /\ i \in 1..Len(vs.hcs)
  /\ vs.hcs[i] = "flight"
  /\ vs' = [vs EXCEPT !.hcs[i] = end]
  /\ UNCHANGED <<today, dailyBankrolls, blackjackHands, stream, events, conn, next3Bets, balanceCents, lastDailyDate, betsResponse, performanceBets, settle, clock, autoPlayState, vsLoop, handRuns, placement>>

MaxAuditRows == 2            \* settled hands in all
AuditHands == {1, 2}

\* Runs of both kinds, one at a time, whose publications end at any later moment or
\* never.
NextAudit ==
  \/ \E m \in ModelIds, h \in AuditHands :
       ~Busy /\ TotalRows < MaxAuditRows /\ StreamRequest(m, 0, h)
  \/ StreamGetBankroll
  \/ (StreamDeals => TotalRows < MaxAuditRows) /\ StreamRoundStart
  \/ \E r \in EventBetReplies : StreamBet(r)
  \/ \E d \in DecisionReplies : StreamDecision(d)
  \/ StreamDeduct
  \/ StreamCredit
  \/ StreamSelect
  \/ StreamInsert
  \/ StreamEndRound
  \/ StreamEnd
  \/ \E i \in 1..MaxAuditRows, end \in HcsEnds : StreamHcsSettles(i, end)
  \/ \E a \in ModelIds, b \in ModelIds, h \in AuditHands :
       ~Busy /\ TotalRows < MaxAuditRows /\ VsRequest(a, b, h)
  \/ VsGetBankrollA
  \/ VsGetBankrollB
  \/ (VsDeals => TotalRows + 2 <= MaxAuditRows) /\ VsRoundStart
  \/ \E r \in EventBetReplies : VsBetA(r)
  \/ \E r \in EventBetReplies : VsBetB(r)
  \/ \E d \in DecisionReplies : VsDecisionA(d)
  \/ \E d \in DecisionReplies : VsDecisionB(d)
  \/ VsDeductA
  \/ VsCreditA
  \/ VsDeductB
  \/ VsCreditB
  \/ VsSelectA
  \/ VsSelectB
  \/ VsInsertA
  \/ VsInsertB
  \/ VsEndRound
  \/ VsEnd
  \/ \E i \in 1..MaxAuditRows, end \in HcsEnds : VsHcsSettles(i, end)

SpecAudit == Init /\ [][NextAudit]_vars

-----------------------------------------------------------------------------
(* The two forms of the gateway: ask, and askStream with its chunks *)

\* The tokens of the longest line of a reply
MaxLineTokens == 6

REASONING_MARK == <<"r", "e", "a", "s", "o", "n", "i", "n", "g", ":">>

\* trim() of a text held as lines: the blank lines at both ends are dropped
RECURSIVE TrimStart(_)
TrimStart(lines) ==
  IF lines # <<>> /\ Head(lines) = <<>> THEN TrimStart(Tail(lines)) ELSE lines

Trim(lines) == Rev(TrimStart(Rev(TrimStart(lines))))

\* content.match(/REASONING:\s*([\s\S]+?)(?=\n\n|$)/i)?.[1]?.trim(), on a text with
\* no blank line inside: <<the text after the first marker>>, or Null when there is
\* no marker or nothing after it
ParsedReasoning(content) ==
  LET at == {ij \in (1..Len(content)) \X (1..MaxLineTokens) :
               ij[2] <= Len(content[ij[1]])
                 /\ toLowerCase(content[ij[1]][ij[2]]) = REASONING_MARK}
      first == CHOOSE ij \in at :
                 \A kl \in at : ij[1] < kl[1] \/ (ij[1] = kl[1] /\ ij[2] <= kl[2])
      rest == Trim(<<SubSeq(content[first[1]], first[2] + 1, Len(content[first[1]]))>>
                     \o SubSeq(content, first[1] + 1, Len(content)))
  IN IF at = {} \/ rest = <<>> THEN Null ELSE <<rest>>

\* What the gateway sends back to a play prompt, before any trim: nothing, a marked
\* decision, the same with a line break after it, reasoning and a decision on two
\* lines, bare words.
GatewayReplies ==
  { <<>>,
    << <<<<"D", "E", "C", "I", "S", "I", "O", "N", ":">>, <<"h", "i", "t">>>> >>,
    << <<<<"D", "E", "C", "I", "S", "I", "O", "N", ":">>, <<"h", "i", "t">>>>, <<>> >>,
    << <<<<"R", "E", "A", "S", "O", "N", "I", "N", "G", ":">>, <<"o", "k">>>>,
       <<<<"D", "E", "C", "I", "S", "I", "O", "N", ":">>, <<"h", "i", "t">>>> >>,
    << <<<<"s", "t", "a", "n", "d">>, <<"n", "o", "w">>>> >> }

\* The pieces a streamed reply arrives in: its lines, one per chunk
GatewayChunks == UNION {{content[i] : i \in 1..Len(content)} : content \in GatewayReplies}

\* The else branch: const res = await provider.ask(prompt), whose content is trimmed
\* and parsed; lastReasoning = res.reasoning ?? null
StreamAsk(content) ==
  StreamReply(NormalizeDecision(parseStructuredResponse(Trim(content))),
              ParsedReasoning(Trim(content)))

\* Variant: the streamed reply's decision is taken from its first chunk.
StreamGenDoneFirstChunk ==
  /\ stream.reasoningAccum \in GatewayReplies
  /\ StreamReply(NormalizeDecision(parseStructuredResponse(
                   Trim(IF stream.reasoningAccum = <<>> THEN <<>>
                        ELSE <<stream.reasoningAccum[1]>>))),
                 ParsedReasoning(Trim(stream.reasoningAccum)))

\* The askStream branch, one pass of while (!next.done): the chunk is added to
\* reasoningAccum and sent on as a reasoning_chunk event.
StreamChunkText(chunk) ==
  /\ stream.pc = "play"
  /\ \E content \in GatewayReplies :
       /\ Len(stream.reasoningAccum) < Len(content)
       /\ SubSeq(content, 1, Len(stream.reasoningAccum) + 1)
            = Append(stream.reasoningAccum, chunk)
  /\ stream' = [stream EXCEPT !.reasoningAccum = Append(@, chunk)]
  /\ Emit("s", <<Ev("reasoning_chunk", <<chunk>>)>>)
  /\ UNCHANGED <<today, dailyBankrolls, blackjackHands, vs, conn, next3Bets, balanceCents, lastDailyDate, betsResponse, performanceBets, settle, clock, autoPlayState, vsLoop, handRuns, placement>>

\* The askStream branch, next.done: the generator returns the parse of its trimmed
\* full text; lastReasoning = result.reasoning ?? (reasoningAccum.trim() || null)
StreamGenDone ==
  /\ stream.reasoningAccum \in GatewayReplies
  /\ LET result == Trim(stream.reasoningAccum)
     IN StreamReply(NormalizeDecision(parseStructuredResponse(result)),
                    IF ParsedReasoning(result) # Null THEN ParsedReasoning(result)
                    ELSE IF Trim(stream.reasoningAccum) # <<>>
                         THEN <<Trim(stream.reasoningAccum)>>
                         ELSE Null)

MaxGatewayRows == 2          \* settled hands in all
GatewayHands == {1, 2}

\* Runs of one agent; which form answers a play prompt is left open at every pass.
NextGateway ==
  \/ \E m \in ModelIds, h \in GatewayHands :
       ~StreamOpen /\ TotalRows < MaxGatewayRows /\ StreamRequest(m, 0, h)
  \/ StreamGetBankroll
  \/ (StreamDeals => TotalRows < MaxGatewayRows) /\ StreamRoundStart
  \/ \E r \in EventBetReplies : StreamBet(r)
  \/ \E content \in GatewayReplies : stream.reasoningAccum = <<>> /\ StreamAsk(content)
  \/ \E chunk \in GatewayChunks : StreamChunkText(chunk)
  \/ StreamGenDone
  \/ StreamDeduct
  \/ StreamCredit
  \/ StreamSelect
  \/ StreamInsert
  \/ StreamEndRound
  \/ StreamEnd

SpecGateway == Init /\ [][NextGateway]_vars

-----------------------------------------------------------------------------
(* Runs to their end: every step of a run is taken sooner or later *)

TermHands == {0, 2}
TermBetReplies == {[marker |-> FALSE, milli |-> 0], [marker |-> TRUE, milli |-> 1000]}
TermDecisions == {<<"H", "i", "t">>, <<"s", "t", "a", "n", "d">>}
TermStreamModel == "openai-gpt-4o-mini"
TermVsModels == <<"openai-gpt-4o-mini", "openai-gpt-4o">>

\* The steps of the single-agent run after its request
TermStreamStep ==
  \/ StreamGetBankroll
  \/ StreamRoundStart
  \/ \E r \in TermBetReplies : StreamBet(r)
  \/ \E d \in TermDecisions : StreamDecision(d)
  \/ StreamDeduct
  \/ StreamCredit
  \/ StreamSelect
  \/ StreamInsert
  \/ StreamEndRound

\* The steps of the VS run after its request
TermVsStep ==
  \/ VsGetBankrollA
  \/ VsGetBankrollB
  \/ VsRoundStart
  \/ \E r \in TermBetReplies : VsBetA(r)
  \/ \E r \in TermBetReplies : VsBetB(r)
  \/ \E d \in TermDecisions : VsDecisionA(d)
  \/ \E d \in TermDecisions : VsDecisionB(d)
  \/ VsDeductA
  \/ VsCreditA
  \/ VsDeductB
  \/ VsCreditB
  \/ VsSelectA
  \/ VsSelectB
  \/ VsInsertA
  \/ VsInsertB
  \/ VsEndRound

MaxTermRows == 2             \* settled hands before the last run starts

\* Runs of both kinds, one at a time, with consumers that may go away.
NextTerm ==
  \/ \E h \in TermHands :
       ~Busy /\ TotalRows < MaxTermRows /\ StreamRequest(TermStreamModel, 0, h)
  \/ \E h \in TermHands :
       ~Busy /\ TotalRows < MaxTermRows /\ VsRequest(TermVsModels[1], TermVsModels[2], h)
  \/ TermStreamStep
  \/ TermVsStep
  \/ StreamDisconnect
  \/ \E sent \in BOOLEAN : StreamSendThrows(sent)
  \/ VsDisconnect
  \/ StreamEnd
  \/ VsEnd

\* Every gateway and storage call of a run returns: a run that can take a step does.
SpecTerm == Init /\ [][NextTerm]_vars /\ WF_vars(TermStreamStep) /\ WF_vars(TermVsStep)

-----------------------------------------------------------------------------
(* Head-to-head wagers placed at different times into one pool *)

MaxSharedNext3 == 2          \* head-to-head wagers placed
MaxSharedRows == 4           \* settled hands per agent
SharedStakes == {1}
SharedReplies ==
  [a \in {MarketPair[1]} |-> {<<"H", "i", "t">>, <<"s", "t", "a", "n", "d">>}]
    @@ [b \in {MarketPair[2]} |-> {<<"s", "t", "a", "n", "d">>}]

\* One day of the pair's market: the first agent's hands are won (hit) or pushed
\* (stand), the second agent's are pushed; wagers of one cent on either side at any
\* moment of the day, and the passes.
NextSharedPool ==
  \/ \E m \in REGISTERED, deck0 \in MarketShuffles :
       \E d \in SharedReplies[m] :
         /\ Len(blackjackHands[Key(m, today)]) < MaxSharedRows
         /\ PostPlayBet(m, MIN_BET_CENTS, deck0, d)
  \/ \E dir \in Directions, amt \in SharedStakes :
       Len(next3Bets) < MaxSharedNext3 /\ PlaceNext3Bet(MarketPair[1], MarketPair[2], dir, amt)
  \/ ListNext3Bets
  \/ balanceCents + USER_DAILY_CENTS <= MaxUserCents /\ ClaimDaily

SpecSharedPool == Init /\ [][NextSharedPool]_vars

-----------------------------------------------------------------------------
(* The auto-play loop: runVsLoop *)

\* The times of the loop in units of its sleep(tickMs): CLAIM_MS is 30 of them in the
\* code and config.autoPlayDelayMs 300 by default, scaled here to 2 and 3
TICK_MS == 1
CLAIM_MS == 2
AUTO_PLAY_DELAY_MS == 3
MaxClock == 5                \* readings of Date.now()

\* Time passes
Tick ==
  /\ clock < MaxClock
  /\ clock' = clock + 1
  /\ UNCHANGED <<today, dailyBankrolls, blackjackHands, stream, vs, events, conn, next3Bets,
                 balanceCents, lastDailyDate, betsResponse, performanceBets, settle,
                 autoPlayState, vsLoop, handRuns, placement>>

\* startAutoPlayBlackjack with two providers and a positive delay: runVsLoop is called
\* and reaches the head of its while (true)
StartAutoPlay ==
  /\ vsLoop.pc = "off"
  /\ vsLoop' = [vsLoop EXCEPT !.pc = "top"]
  /\ UNCHANGED <<today, dailyBankrolls, blackjackHands, stream, vs, events, conn, next3Bets,
                 balanceCents, lastDailyDate, betsResponse, performanceBets, settle, clock,
                 autoPlayState, handRuns, placement>>

\* if (!pendingHand && (!nextHandAt || now >= nextHandAt - 1000)): a new pending hand,
\* stamped with the pass's reading of the clock
Schedule(st, now) ==
  IF st.pendingHand = Null /\ (st.nextHandAt = Null \/ now >= st.nextHandAt[1] - TICK_MS)
  THEN [st EXCEPT !.pendingHand = <<[modelAId |-> AutoPlayPair[1],
                                     modelBId |-> AutoPlayPair[2], at |-> now]>>,
                  !.nextHandAt = <<now + AUTO_PLAY_DELAY_MS>>]
  ELSE st

\* Whether the pending hand has waited CLAIM_MS at the reading now
ClaimExpired(st, now) == st.pendingHand # Null /\ now - st.pendingHand[1].at >= CLAIM_MS

\* One pass of the while up to its await: const now = Date.now(); a pending hand of age
\* CLAIM_MS or more is played, and pendingHand stays set while playHandsStreamVs is
\* awaited; else the scheduling and sleep(tickMs).
LoopPass ==
  /\ vsLoop.pc = "top"
  /\ IF ClaimExpired(autoPlayState, clock)
     THEN /\ vsLoop' = [vsLoop EXCEPT !.pc = "called", !.now = clock]
          /\ handRuns' = handRuns \cup {[at |-> autoPlayState.pendingHand[1].at, by |-> "loop"]}
          /\ UNCHANGED autoPlayState
     ELSE /\ vsLoop' = [vsLoop EXCEPT !.pc = "sleep", !.now = clock, !.wakeAt = clock + TICK_MS]
          /\ autoPlayState' = Schedule(autoPlayState, clock)
          /\ UNCHANGED handRuns
  /\ UNCHANGED <<today, dailyBankrolls, blackjackHands, stream, vs, events, conn, next3Bets,
                 balanceCents, lastDailyDate, betsResponse, performanceBets, settle, clock,
                 placement>>

\* The loop's playHandsStreamVs(modelAId, modelBId, maxBet, 1, noop) gets to its first
\* query: one hand, a consumer that does nothing.
LoopRun ==
  /\ vsLoop.pc = "called"
  /\ ~VsOpen
  /\ vsLoop' = [vsLoop EXCEPT !.pc = "running"]
  /\ vs' = [VsIdle EXCEPT !.pc = "getA", !.modelIdA = AutoPlayPair[1],
                          !.modelIdB = AutoPlayPair[2], !.date = today,
                          !.totalHands = TotalHands(1),
                          !.effectiveMaxBet = EffectiveMaxBet(MAX_BET_CENTS)]
  /\ events' = [events EXCEPT !.v = <<>>]
  /\ conn' = [conn EXCEPT !.v = "noop"]
  /\ UNCHANGED <<today, dailyBankrolls, blackjackHands, stream, next3Bets, balanceCents,
                 lastDailyDate, betsResponse, performanceBets, settle, clock, autoPlayState,
                 handRuns, placement>>

\* The await of the loop is over.  playHandsStreamVs returned: handCount++, lastHandAt,
\* pendingHand = null, then the scheduling with the pass's old reading of the clock and
\* sleep(tickMs).  It threw (deductBet's "Insufficient bankroll or no row" is the one
\* throw of the run): nextHandAt is the end of the day, pendingHand = null, and the
\* loop sleeps until then.
LoopReturns ==
  /\ vsLoop.pc = "running"
  /\ vs.pc = "done"
  /\ vs' = VsIdle
  /\ events' = [events EXCEPT !.v = <<>>]
  /\ conn' = [conn EXCEPT !.v = "open"]
  /\ IF vs.result = "threw"
     THEN /\ autoPlayState' = [autoPlayState EXCEPT !.nextHandAt = <<clock>>,
                                                    !.pendingHand = Null]
          /\ vsLoop' = [vsLoop EXCEPT !.pc = "sleepDay", !.day = today]
     ELSE /\ autoPlayState' =
               Schedule([autoPlayState EXCEPT !.lastHandAt = <<clock>>,
                                              !.pendingHand = Null], vsLoop.now)
          /\ vsLoop' = [vsLoop EXCEPT !.pc = "sleep", !.handCount = @ + 1,
                                      !.wakeAt = clock + TICK_MS]
  /\ UNCHANGED <<today, dailyBankrolls, blackjackHands, stream, next3Bets, balanceCents,
                 lastDailyDate, betsResponse, performanceBets, settle, clock, handRuns,
                 placement>>

\* sleep(tickMs) is over: the next pass
LoopWakes ==
  /\ vsLoop.pc = "sleep"
  /\ clock >= vsLoop.wakeAt
  /\ vsLoop' = [vsLoop EXCEPT !.pc = "top"]
  /\ UNCHANGED <<today, dailyBankrolls, blackjackHands, stream, vs, events, conn, next3Bets,
                 balanceCents, lastDailyDate, betsResponse, performanceBets, settle, clock,
                 autoPlayState, handRuns, placement>>

\* sleep(msUntilNextDay()) is over: handCount = 0; continue
LoopWakesNextDay ==
  /\ vsLoop.pc = "sleepDay"
  /\ today > vsLoop.day
  /\ vsLoop' = [vsLoop EXCEPT !.pc = "top", !.handCount = 0]
  /\ UNCHANGED <<today, dailyBankrolls, blackjackHands, stream, vs, events, conn, next3Bets,
                 balanceCents, lastDailyDate, betsResponse, performanceBets, settle, clock,
                 autoPlayState, handRuns, placement>>

AutoBetReplies == {[marker |-> TRUE, milli |-> 1000]}
AutoDecisions == {<<"s", "t", "a", "n", "d">>}
AutoHands == {1}

\* The steps of a playHandsStreamVs run after its first query
AutoVsStep ==
  \/ VsGetBankrollA
  \/ VsGetBankrollB
  \/ VsRoundStart
  \/ \E r \in AutoBetReplies : VsBetA(r)
  \/ \E r \in AutoBetReplies : VsBetB(r)
  \/ \E d \in AutoDecisions : VsDecisionA(d)
  \/ \E d \in AutoDecisions : VsDecisionB(d)
  \/ VsDeductA
  \/ VsCreditA
  \/ VsDeductB
  \/ VsCreditB
  \/ VsSelectA
  \/ VsSelectB
  \/ VsInsertA
  \/ VsInsertB
  \/ VsEndRound

MaxAutoRows == 4             \* settled hands before the last run starts

\* The loop and a client that asks for the pair's hand in VS mode, over the days.  The
\* clock is read as advancing while the loop sleeps, and the day ends between runs; a
\* hand through POST /play comes in while a round of the loop is about to settle.
NextAutoPlay ==
  \/ vsLoop.pc = "sleep" /\ clock < vsLoop.wakeAt /\ Tick
  \/ StartAutoPlay
  \/ LoopPass
  \/ TotalRows < MaxAutoRows /\ LoopRun
  \/ LoopReturns
  \/ LoopWakes
  \/ LoopWakesNextDay
  \/ \E h \in AutoHands :
       TotalRows < MaxAutoRows /\ VsRequest(AutoPlayPair[2], AutoPlayPair[1], h)
  \/ AutoVsStep
  \/ vsLoop.pc # "running" /\ VsEnd
  \/ \E deck0 \in Shuffles, d \in AutoDecisions :
       /\ vsLoop.pc = "running"
       /\ vs.pc = "deductA"
       /\ TotalRows = 0
       /\ PostPlayBet(AutoPlayPair[1], MAX_BET_CENTS, deck0, d)
  \/ ~VsOpen /\ Midnight

SpecAutoPlay == Init /\ [][NextAutoPlay]_vars

-----------------------------------------------------------------------------
(* Wager requests whose recording can fail: POST /market/bet, /market/bet-next3 *)

\* Math.round(Number(req.body?.amountCents ?? 0)): nothing or zero, one cent, two
\* cents, and a body whose amountCents is no number
AmountInputs == {0, 1, 2, NaN}

\* What a request holds of its body; placeNext3Bet takes its date when it is called
PerfArgs(modelId, period, direction) ==
  [domain |-> "blackjack", modelId |-> modelId, modelBId |-> "", period |-> period,
   direction |-> direction]
Next3Args(modelAId, modelBId, direction) ==
  [domain |-> "next3", modelId |-> modelAId, modelBId |-> modelBId, period |-> today,
   direction |-> direction]

\* The route up to its await: 400 when amountCents <= 0, 400 "Insufficient balance"
\* when deductUserBalance returns false, else the stake is deducted and the placement
\* is called.
PlacementRequest(kind, args, amountCents) ==
  /\ placement.pc = "idle"
  /\ IF NumLe(amountCents, 0) \/ ~DeductOk(balanceCents, amountCents)
     THEN /\ placement' = [PlacementIdle EXCEPT !.kind = kind, !.args = args,
                                               !.amountCents = amountCents, !.status = 400]
          /\ UNCHANGED balanceCents
     ELSE /\ balanceCents' = deduct(balanceCents, amountCents)
          /\ placement' = [pc |-> "place", kind |-> kind, args |-> args,
                           amountCents |-> amountCents, status |-> 0]
  /\ UNCHANGED <<today, dailyBankrolls, blackjackHands, stream, vs, events, conn, next3Bets,
                 lastDailyDate, betsResponse, performanceBets, settle, clock, autoPlayState,
                 vsLoop, handRuns>>

\* placePerformanceBet or placeNext3Bet returns: the row is there, 201.  The
\* amount_cents columns are BIGINT and take no NaN.
PlacementInserted ==
  /\ placement.pc = "place"
  /\ placement.amountCents # NaN
  /\ LET a == placement.args
     IN IF placement.kind = "bet"
        THEN /\ performanceBets' = Append(performanceBets,
                  [domain |-> a.domain, model_id |-> a.modelId, period |-> a.period,
                   direction |-> a.direction, amount_cents |-> placement.amountCents,
                   outcome |-> "pending", payout_cents |-> 0])
             /\ UNCHANGED <<dailyBankrolls, next3Bets>>
        ELSE LET dbA == getOrCreateDailyBankroll(dailyBankrolls, a.modelId, a.period)
                 dbB == getOrCreateDailyBankroll(dbA, a.modelBId, a.period)
                 stateA == getBlackjackDailyState(dbA, blackjackHands, a.modelId, a.period)
                 stateB == getBlackjackDailyState(dbB, blackjackHands, a.modelBId, a.period)
             IN /\ dailyBankrolls' = dbB
                /\ next3Bets' = Append(next3Bets,
                     [model_a_id |-> a.modelId, model_b_id |-> a.modelBId,
                      direction |-> a.direction, amount_cents |-> placement.amountCents,
                      outcome |-> "pending", payout_cents |-> Null,
                      hands_a_at_bet |-> stateA.handsPlayed, pnl_a_at_bet |-> stateA.pnlCents,
                      hands_b_at_bet |-> stateB.handsPlayed, pnl_b_at_bet |-> stateB.pnlCents,
                      date |-> a.period])
                /\ UNCHANGED performanceBets
  /\ placement' = [placement EXCEPT !.pc = "idle", !.status = 201]
  /\ UNCHANGED <<today, blackjackHands, stream, vs, events, conn, balanceCents, lastDailyDate,
                 betsResponse, settle, clock, autoPlayState, vsLoop, handRuns>>

\* The placement's query rejects: catch { creditUserBalance(amountCents); throw e },
\* and the outer catch answers 500.
PlacementThrows ==
  /\ placement.pc = "place"
  /\ balanceCents' = credit(balanceCents, placement.amountCents)
  /\ placement' = [placement EXCEPT !.pc = "idle", !.status = 500]
  /\ UNCHANGED <<today, dailyBankrolls, blackjackHands, stream, vs, events, conn, next3Bets,
                 lastDailyDate, betsResponse, performanceBets, settle, clock, autoPlayState,
                 vsLoop, handRuns>>

MaxPlacePerf == 2            \* performance wagers recorded
MaxPlaceNext3 == 1           \* head-to-head wagers recorded
MaxPlaceUserCents == 2       \* the bettor's balance up to which it is topped up
MaxPlaceRows == 6            \* settled hands in all

\* Requests of both kinds that are refused, recorded or fail, with the claims, the
\* hands and the passes that settle the recorded wagers; hands are played while a
\* head-to-head wager of the day is open and no request is in flight.
NextPlacement ==
  \/ \E m \in PerfModels, per \in SettlePeriods, dir \in PerfDirections, amt \in AmountInputs :
       Len(performanceBets) < MaxPlacePerf
         /\ PlacementRequest("bet", PerfArgs(m, per, dir), amt)
  \/ \E dir \in Directions, amt \in AmountInputs :
       Len(next3Bets) < MaxPlaceNext3
         /\ PlacementRequest("bet-next3", Next3Args(MarketPair[1], MarketPair[2], dir), amt)
  \/ PlacementInserted
  \/ PlacementThrows
  \/ \E m \in REGISTERED, deck0 \in MarketShuffles, d \in StandReplies :
       /\ placement.pc = "idle"
       /\ \E i \in 1..Len(next3Bets) :
            next3Bets[i].outcome = "pending" /\ next3Bets[i].date = today
       /\ TotalRows < MaxPlaceRows
       /\ Len(blackjackHands[Key(m, today)]) < MaxRows
       /\ PostPlayBet(m, MIN_BET_CENTS, deck0, d)
  \/ ListNext3Bets
  \/ \E per \in Dates : GetLeaderboard("blackjack", per)
  \/ (balanceCents = NaN \/ balanceCents + USER_DAILY_CENTS <= MaxPlaceUserCents) /\ ClaimDaily
  \/ Midnight

SpecPlacement == Init /\ [][NextPlacement]_vars

-----------------------------------------------------------------------------
(* Properties of the ledger and the orchestrator *)

Keys == ModelIds \X Dates

Last(seq) == seq[Len(seq)]

\* The balance a key stands at: its row, or the allowance the row would be created with.
BalanceOf(db, k) == IF HasRow(db, k) THEN db[k] ELSE BLACKJACK_DAILY_CENTS

\* A POST /play request settled a hand of key k in this step.
PlayedHand(k) == ~Busy /\ Len(blackjackHands'[k]) = Len(blackjackHands[k]) + 1

\* C1: the stored daily balance of every (agent, date) is never below zero.
C1_BalanceNonNegative ==
  \A k \in DOMAIN dailyBankrolls : dailyBankrolls[k] >= 0

\* C2: a settled round leaves the stored balance at the balance before the round
\* plus the round's profit or loss (+w on a win, -w on a loss, 0 on a push): for a
\* hand of POST /play, and for a round of playHandsStream once creditResult has run.
C2_RoundBalance ==
  [][/\ \A k \in Keys :
          PlayedHand(k) =>
            BalanceOf(dailyBankrolls', k) =
              BalanceOf(dailyBankrolls, k) + Last(blackjackHands'[k]).pnl_cents
     /\ (stream.pc = "credit" /\ stream'.pc = "select") =>
          dailyBankrolls'[Key(stream.modelId, stream.date)] =
            stream.balance + stream.pnlCents]_vars

\* C3: between the rounds of a VS run and when the run is over, the two agents have
\* been debited for the same number of rounds and have the same number of settled
\* hands recorded: a round is settled for both or for neither.
C3_BothOrNeither ==
  vs.pc \in {"loop", "done"} =>
    vs.deductedA = vs.deductedB /\ vs.settledA = vs.settledB

\* C4: a run whose telemetry consumer went away has, when it is over, settled and
\* recorded every round it dealt.
C4_TelemetryNeverSkips ==
  /\ (stream.pc = "done" /\ conn.s = "lost") => stream.settled = stream.started
  /\ (vs.pc = "done" /\ conn.v = "lost") =>
       vs.settledA = vs.started /\ vs.settledB = vs.started

\* C5: every wager that is debited lies between the minimum wager and the smaller
\* of the balance at the start of the round and the configured maximum wager.
WagerInRange(betCents, balance) ==
  MIN_BET_CENTS <= betCents /\ betCents <= Min(balance, MAX_BET_CENTS)

C5_WagerInRange ==
  [][/\ \A k \in Keys :
          PlayedHand(k) =>
            WagerInRange(Last(blackjackHands'[k]).bet_cents, BalanceOf(dailyBankrolls, k))
     /\ (stream.pc = "bet" /\ stream'.pc = "play") =>
          WagerInRange(stream'.betCents, stream.balance)
     /\ (vs.pc = "betA" /\ vs'.pc = "betB") => WagerInRange(vs'.betA, vs.balanceA)
     /\ (vs.pc = "betB" /\ vs'.pc = "playA") => WagerInRange(vs'.betB, vs.balanceB)]_vars

\* C6: in a single-agent round whose agent went bust the dealer's hand stays at its
\* two dealt cards, and the last event before settlement is the reveal.
C6_NoDrawAfterBust ==
  (stream.pc = "deduct" /\ isBust(stream.playerCards)) =>
    /\ Len(stream.dealerCards) = 2
    /\ Last(events.s).type = "dealer_reveal"

InsufficientError == Ev("error", <<"Insufficient bankroll">>)

\* No hand_start follows the insufficient-bankroll error among a run's events.
NoStartAfterInsufficient(evs) ==
  \A i \in 1..Len(evs), j \in 1..Len(evs) :
    (i < j /\ evs[i].type = "error" /\ evs[i].arg = InsufficientError.arg) =>
      evs[j].type # "hand_start"

\* C7: when a round is about to start and an agent's balance is below the minimum
\* wager, the run's next step ends the run, deals no round and leaves the ledger
\* as it is, and hands the insufficient-bankroll error to the telemetry callback;
\* after that the run starts no round and changes no balance and no settled hand.
C7_InsufficientEndsRun ==
  [][/\ (/\ stream.pc = "loop" /\ stream.handIndex < stream.totalHands
         /\ stream.balance < MIN_BET_CENTS /\ stream' # stream) =>
          /\ stream'.pc = "done" /\ stream'.started = stream.started
          /\ UNCHANGED <<dailyBankrolls, blackjackHands>>
          /\ conn.s = "open" =>
               /\ stream'.result = "insufficient"
               /\ events'.s = events.s \o <<InsufficientError, Ev("done", <<>>)>>
     /\ (/\ vs.pc = "loop" /\ vs.handIndex < vs.totalHands
         /\ (vs.balanceA < MIN_BET_CENTS \/ vs.balanceB < MIN_BET_CENTS)
         /\ vs' # vs) =>
          /\ vs'.pc = "done" /\ vs'.started = vs.started /\ vs'.result = "insufficient"
          /\ UNCHANGED <<dailyBankrolls, blackjackHands>>
          /\ events'.v = events.v \o <<InsufficientError, Ev("done", <<>>)>>
     /\ (stream.result = "insufficient" \/ vs.result = "insufficient") =>
          /\ UNCHANGED <<dailyBankrolls, blackjackHands>>
          /\ stream' \in {stream, StreamIdle} /\ vs' \in {vs, VsIdle}
     /\ NoStartAfterInsufficient(events'.s) /\ NoStartAfterInsufficient(events'.v)]_vars

\* A run of two hands that lost the first and stopped at the second.
C7_Witness ==
  stream.pc = "done" /\ stream.result = "insufficient" /\ stream.settled >= 1

\* Nothing in the ledger belongs to an id without a registered gateway.
UnknownNeverLedgered ==
  \A k \in Keys :
    k[1] \notin REGISTERED => ~HasRow(dailyBankrolls, k) /\ blackjackHands[k] = <<>>

\* C8: a request that names an id with no registered gateway ends at once with the
\* unknown-agent error and changes no bankroll and no settled hand, in the VS
\* variant also when only one of the two ids is unknown; no bankroll row and no
\* settled hand ever belongs to such an id.
C8_UnknownRejected ==
  [][/\ (stream.pc = "idle" /\ stream'.pc # "idle" /\ stream'.modelId \notin REGISTERED) =>
          /\ stream'.pc = "done" /\ stream'.result = "unknown"
          /\ events'.s = <<Ev("error", <<"Unknown AI model">>)>>
          /\ UNCHANGED <<dailyBankrolls, blackjackHands>>
     /\ (/\ vs.pc = "idle" /\ vs'.pc # "idle"
         /\ (vs'.modelIdA \notin REGISTERED \/ vs'.modelIdB \notin REGISTERED)) =>
          /\ vs'.pc = "done" /\ vs'.result = "unknown"
          /\ events'.v = <<Ev("error", <<"Unknown model">>)>>
          /\ UNCHANGED <<dailyBankrolls, blackjackHands>>
     /\ (stream.result = "unknown" \/ vs.result = "unknown") =>
          UNCHANGED <<dailyBankrolls, blackjackHands>>
     /\ UnknownNeverLedgered']_vars

\* A VS request with a registered A and an unknown B was rejected, and A has no
\* bankroll row.
C8_Witness ==
  /\ vs.pc = "done" /\ vs.result = "unknown"
  /\ vs.modelIdA \in REGISTERED /\ vs.modelIdB \notin REGISTERED
  /\ ~HasRow(dailyBankrolls, Key(vs.modelIdA, vs.date))

-----------------------------------------------------------------------------
(* Properties of the head-to-head wagers *)

\* C9: a pass moves a wager out of pending only when each of its two agents has,
\* on the wager's date, at least 3 more settled hands than the count snapshotted at
\* placement.
C9_SettlesOnlyWhenDue ==
  [][\A i \in 1..Len(next3Bets) :
       (next3Bets[i].outcome = "pending" /\ next3Bets'[i].outcome # "pending") =>
         LET bet == next3Bets[i]
         IN /\ Len(blackjackHands[Key(bet.model_a_id, bet.date)]) >= bet.hands_a_at_bet + 3
            /\ Len(blackjackHands[Key(bet.model_b_id, bet.date)]) >= bet.hands_b_at_bet + 3]_vars

\* A wager was settled by a win when each agent had played just three hands more.
C9_Witness ==
  \E i \in 1..Len(next3Bets) :
    LET bet == next3Bets[i]
    IN /\ bet.outcome = "win"
       /\ Len(blackjackHands[Key(bet.model_a_id, bet.date)]) = bet.hands_a_at_bet + 3
       /\ Len(blackjackHands[Key(bet.model_b_id, bet.date)]) = bet.hands_b_at_bet + 3

\* Hands of an agent settled on a date or later
RECURSIVE HandsSince(_, _, _)
HandsSince(hands, modelId, date) ==
  IF date > MaxDay THEN 0
  ELSE Len(hands[Key(modelId, date)]) + HandsSince(hands, modelId, date + 1)

\* Hands an agent completed since a wager was placed: those of the wager's date
\* beyond the snapshot, and all of later dates.
FurtherHands(hands, modelId, date, atBet) == HandsSince(hands, modelId, date) - atBet

\* The wager is pending and both agents have completed 3 further hands.
DueOnAnyDate(bet, hands) ==
  /\ bet.outcome = "pending"
  /\ FurtherHands(hands, bet.model_a_id, bet.date, bet.hands_a_at_bet) >= 3
  /\ FurtherHands(hands, bet.model_b_id, bet.date, bet.hands_b_at_bet) >= 3

\* C10: a pass that answers GET /market/bets settles every pending wager whose two
\* agents have each completed 3 further hands since placement, whatever the dates
\* of those hands.
C10_SettlesOnAnyDate ==
  [][betsResponse' # betsResponse =>
       \A i \in 1..Len(next3Bets) :
         DueOnAnyDate(next3Bets[i], blackjackHands) => next3Bets'[i].outcome # "pending"]_vars

\* The gain of an agent for a wager: its P/L of the wager's date less the snapshot.
GainA(bet, hands) == SumPnl(hands[Key(bet.model_a_id, bet.date)]) - bet.pnl_a_at_bet
GainB(bet, hands) == SumPnl(hands[Key(bet.model_b_id, bet.date)]) - bet.pnl_b_at_bet

\* The agent a wager is on has the strictly greater gain.
BackedAhead(bet, hands) ==
  \/ bet.direction = "a_wins" /\ GainA(bet, hands) > GainB(bet, hands)
  \/ bet.direction = "b_wins" /\ GainB(bet, hands) > GainA(bet, hands)

\* C11: when a head-to-head wager settles, equal gains make it a push that pays
\* exactly the stake; otherwise the wager on the agent with the strictly greater
\* gain is a win and the wager on the other agent is a loss that pays 0.
C11_Next3Outcome ==
  [][\A i \in 1..Len(next3Bets) :
       (next3Bets[i].outcome = "pending" /\ next3Bets'[i].outcome # "pending") =>
         LET bet == next3Bets[i]
             after == next3Bets'[i]
         IN IF GainA(bet, blackjackHands) = GainB(bet, blackjackHands)
            THEN after.outcome = "push" /\ after.payout_cents = <<bet.amount_cents>>
            ELSE IF BackedAhead(bet, blackjackHands)
            THEN after.outcome = "win"
            ELSE after.outcome = "loss" /\ after.payout_cents = <<0>>]_vars

\* A wager was settled as a push with both agents' gains equal and not zero, and
\* its stake is back on the bettor's balance.
C11_Witness ==
  \E i \in 1..Len(next3Bets) :
    LET bet == next3Bets[i]
    IN /\ bet.outcome = "push" /\ bet.payout_cents = <<bet.amount_cents>>
       /\ GainA(bet, blackjackHands) = GainB(bet, blackjackHands)
       /\ GainA(bet, blackjackHands) # 0

-----------------------------------------------------------------------------
(* Properties of the performance wagers *)

\* The agent's cumulative P/L of a wager's period
PeriodPnl(bet, hands) == SumPnl(hands[Key(bet.model_id, bet.period)])

\* A performance wager leaves pending in this step.
PerfSettles(i) ==
  performanceBets[i].outcome = "pending" /\ performanceBets'[i].outcome # "pending"

\* C12: settleBetsForPeriod settles every pending wager of the period as win or
\* loss only: a yes wager wins exactly when the agent's P/L of the period is
\* strictly positive, a no wager wins exactly when it is zero or negative, and no
\* performance wager ever has outcome push.
C12_PerfWinOrLoss ==
  /\ [](\A i \in 1..Len(performanceBets) :
          performanceBets[i].outcome \in {"pending", "win", "loss"})
  /\ [][/\ \A i \in 1..Len(performanceBets) :
             PerfSettles(i) =>
               LET bet == performanceBets[i]
                   positive == PeriodPnl(bet, blackjackHands) > 0
               IN performanceBets'[i].outcome =
                    IF (bet.direction = "outperform") = positive THEN "win" ELSE "loss"
        /\ \A per \in Dates :
             (per < today /\ GetLeaderboard("blackjack", per)) =>
               \A i \in 1..Len(performanceBets) :
                 (performanceBets[i].domain = "blackjack" /\ performanceBets[i].period = per)
                   => performanceBets'[i].outcome # "pending"]_vars

\* A no wager won on a period whose hands sum to a P/L of exactly zero.
C12_Witness ==
  \E i \in 1..Len(performanceBets) :
    LET bet == performanceBets[i]
    IN /\ bet.direction = "underperform" /\ bet.outcome = "win"
       /\ blackjackHands[Key(bet.model_id, bet.period)] # <<>>
       /\ PeriodPnl(bet, blackjackHands) = 0

\* The stakes of the wagers of a pool (those of the agent and period of bet) that are
\* on one of the given directions
RECURSIVE PoolStakes(_, _, _)
PoolStakes(bets, bet, directions) ==
  IF bets = <<>> THEN 0
  ELSE (IF /\ Head(bets).domain = bet.domain /\ Head(bets).model_id = bet.model_id
           /\ Head(bets).period = bet.period /\ Head(bets).direction \in directions
        THEN Head(bets).amount_cents ELSE 0)
       + PoolStakes(Tail(bets), bet, directions)

\* The side the P/L of a wager's period makes the winning one
WinningSide(bet, hands) ==
  IF PeriodPnl(bet, hands) > 0 THEN "outperform" ELSE "underperform"

\* p is x / y rounded to the nearest integer, a half rounded up
IsRounded(p, x, y) == 2 * x - y < 2 * p * y /\ 2 * p * y <= 2 * x + y

\* C13: a wager settled as a win is paid round(stake x totalPool /
\* totalWinningStake), both totals over all the wagers on its agent and period; a
\* losing wager is paid 0; when nothing is staked on the winning side every wager
\* of the pool is a loss paid 0.
C13_PerfPayout ==
  [][\A i \in 1..Len(performanceBets) :
       PerfSettles(i) =>
         LET bet == performanceBets[i]
             after == performanceBets'[i]
             totalPool == PoolStakes(performanceBets, bet, {"outperform", "underperform"})
             totalWinningStake ==
               PoolStakes(performanceBets, bet, {WinningSide(bet, blackjackHands)})
         IN /\ after.outcome = "win" =>
                 /\ totalWinningStake > 0
                 /\ IsRounded(after.payout_cents, bet.amount_cents * totalPool,
                              totalWinningStake)
            /\ after.outcome = "loss" => after.payout_cents = 0
            /\ totalWinningStake = 0 => after.outcome = "loss"]_vars

\* Two winners of one stake each share a pool of three: each is paid 2, the
\* rounding of 1.5.
C13_Witness ==
  /\ Len(performanceBets) = 3
  /\ \A i \in 1..3 : performanceBets[i].amount_cents = 1
  /\ \E i, j \in 1..3 :
       /\ i # j
       /\ performanceBets[i].outcome = "win" /\ performanceBets[i].payout_cents = 2
       /\ performanceBets[j].outcome = "win" /\ performanceBets[j].payout_cents = 2

\* The wagers of the pool of bet: same domain, agent and period
PoolOf(bets, bet) ==
  {i \in 1..Len(bets) :
     /\ bets[i].domain = bet.domain /\ bets[i].model_id = bet.model_id
     /\ bets[i].period = bet.period}

\* The payouts of a set of wagers, summed
RECURSIVE SumPayouts(_, _)
SumPayouts(bets, is) ==
  IF is = {} THEN 0
  ELSE LET i == CHOOSE x \in is : TRUE
       IN bets[i].payout_cents + SumPayouts(bets, is \ {i})

\* C14: in every pool whose wagers are all settled and that has a winner, the
\* payouts of the winners sum to the pool's total stake, each share being off by
\* at most half a cent of rounding.
C14_PoolConserved ==
  \A b \in 1..Len(performanceBets) :
    LET pool == PoolOf(performanceBets, performanceBets[b])
        winners == {i \in pool : performanceBets[i].outcome = "win"}
        totalPool ==
          PoolStakes(performanceBets, performanceBets[b], {"outperform", "underperform"})
        paid == SumPayouts(performanceBets, winners)
    IN ((\A i \in pool : performanceBets[i].outcome # "pending") /\ winners # {}) =>
         /\ 2 * (paid - totalPool) <= Cardinality(winners)
         /\ 2 * (totalPool - paid) <= Cardinality(winners)

\* C15: a performance wager leaves pending only when its period is strictly
\* earlier than today, never while the period is the current day or a future day.
C15_SettlesPastOnly ==
  [][\A i \in 1..Len(performanceBets) :
       PerfSettles(i) => performanceBets[i].period < today]_vars

\* On day 2 the leaderboard of day 2 has been read, a wager on day 1 is settled and
\* a wager on day 2 is still pending.
C15_Witness ==
  /\ today = 2
  /\ HasRow(dailyBankrolls, Key("openai-gpt-4o", 2))
  /\ \E i, j \in 1..Len(performanceBets) :
       /\ performanceBets[i].period = 1 /\ performanceBets[i].outcome # "pending"
       /\ performanceBets[j].period = 2 /\ performanceBets[j].outcome = "pending"

-----------------------------------------------------------------------------
(* Properties of the settlement passes *)

\* A head-to-head wager leaves pending in this step.
Next3Settles(i) == next3Bets[i].outcome = "pending" /\ next3Bets'[i].outcome # "pending"

\* The payouts of the wagers that leave pending in this step
RECURSIVE NewPerfPayouts(_)
NewPerfPayouts(n) ==
  IF n = 0 THEN 0
  ELSE (IF PerfSettles(n) THEN performanceBets'[n].payout_cents ELSE 0) + NewPerfPayouts(n - 1)

RECURSIVE NewNext3Payouts(_)
NewNext3Payouts(n) ==
  IF n = 0 THEN 0
  ELSE (IF Next3Settles(n) THEN next3Bets'[n].payout_cents[1] ELSE 0) + NewNext3Payouts(n - 1)

\* A step that is a whole settlement pass
SettlementPass == ListNext3Bets \/ \E per \in Dates : GetLeaderboard("blackjack", per)

\* C16: a settlement pass leaves every wager that was already settled with its
\* outcome and payout, and credits the bettor only the payouts of the wagers it
\* settles itself: run again after a pass, it credits nothing again.
C16_PassIdempotent ==
  [][SettlementPass =>
       /\ \A i \in 1..Len(performanceBets) :
            performanceBets[i].outcome # "pending" => performanceBets'[i] = performanceBets[i]
       /\ \A i \in 1..Len(next3Bets) :
            next3Bets[i].outcome # "pending" => next3Bets'[i] = next3Bets[i]
       /\ balanceCents' = balanceCents + NewPerfPayouts(Len(performanceBets))
                                       + NewNext3Payouts(Len(next3Bets))]_vars

\* Two passes ran over one pool: its first wager was paid as the only wager of the
\* pool, the second was placed and settled afterwards; and a head-to-head wager is
\* settled and listed.
C16_Witness ==
  /\ Len(performanceBets) = 2
  /\ performanceBets[1].outcome = "win" /\ performanceBets[1].payout_cents = 1
  /\ performanceBets[2].outcome = "loss"
  /\ Len(next3Bets) = 1 /\ next3Bets[1].outcome # "pending" /\ betsResponse = next3Bets

\* C17: however settlement passes interleave, a wager that is settled keeps its one
\* outcome and payout, and the bettor's balance rises (other than by the daily
\* claim) only by the payout of a wager that leaves pending in that very step:
\* each payout is credited at most once.
C17_CreditedOnce ==
  [][/\ \A i \in 1..Len(performanceBets) :
          performanceBets[i].outcome # "pending" => performanceBets'[i] = performanceBets[i]
     /\ \A i \in 1..Len(next3Bets) :
          next3Bets[i].outcome # "pending" => next3Bets'[i] = next3Bets[i]
     /\ (balanceCents' > balanceCents /\ lastDailyDate' = lastDailyDate) =>
          balanceCents' = balanceCents + NewPerfPayouts(Len(performanceBets))
                                       + NewNext3Payouts(Len(next3Bets))]_vars

-----------------------------------------------------------------------------
(* Properties of the ledger under concurrent rounds *)

\* bet_cents and pnl_cents of the settled hands of a key, netted: each hand was
\* debited its bet and credited its pnl.
RECURSIVE SumNet(_)
SumNet(rows) ==
  IF rows = <<>> THEN 0
  ELSE Head(rows).pnl_cents - Head(rows).bet_cents + SumNet(Tail(rows))

\* What the single-agent run has applied to key k for a round not yet recorded.
StreamApplied(k) ==
  IF Key(stream.modelId, stream.date) # k THEN 0
  ELSE IF stream.pc = "credit" THEN -stream.betCents
  ELSE IF stream.pc \in {"select", "insert"} THEN stream.pnlCents - stream.betCents
  ELSE 0

\* What the VS run has applied to key k for a round not yet recorded, per side.
VsAppliedA(k) ==
  IF Key(vs.modelIdA, vs.date) # k \/ vs.deductedA = vs.settledA THEN 0
  ELSE IF vs.pc = "creditA" THEN -vs.betA
  ELSE vs.pnlA - vs.betA

VsAppliedB(k) ==
  IF Key(vs.modelIdB, vs.date) # k \/ vs.deductedB = vs.settledB THEN 0
  ELSE IF vs.pc = "creditB" THEN -vs.betB
  ELSE vs.pnlB - vs.betB

\* A debit statement for amount b on key k: applied whole when the stored balance
\* covers it, and otherwise not at all (and the caller sees the throw).
DebitStep(k, b, applied) ==
  IF HasRow(dailyBankrolls, k) /\ dailyBankrolls[k] >= b
  THEN applied /\ dailyBankrolls' = [dailyBankrolls EXCEPT ![k] = @ - b]
  ELSE ~applied /\ dailyBankrolls' = dailyBankrolls

\* A credit statement for amount c on key k: added to whatever is stored now.
CreditStep(k, c) ==
  dailyBankrolls' = [dailyBankrolls EXCEPT ![k] = @ + c]

\* Every debit and credit statement of either run, as one step.
LedgerSteps ==
  /\ (stream.pc = "deduct" /\ stream'.pc # "deduct") =>
       DebitStep(Key(stream.modelId, stream.date), stream.betCents,
                 stream'.pc = "credit")
  /\ (stream.pc = "credit" /\ stream'.pc # "credit") =>
       CreditStep(Key(stream.modelId, stream.date), stream.pnlCents)
  /\ (vs.pc = "deductA" /\ vs'.pc # "deductA") =>
       DebitStep(Key(vs.modelIdA, vs.date), vs.betA, vs'.pc = "creditA")
  /\ (vs.pc = "creditA" /\ vs'.pc # "creditA") =>
       CreditStep(Key(vs.modelIdA, vs.date), vs.pnlA)
  /\ (vs.pc = "deductB" /\ vs'.pc # "deductB") =>
       DebitStep(Key(vs.modelIdB, vs.date), vs.betB, vs'.pc = "creditB")
  /\ (vs.pc = "creditB" /\ vs'.pc # "creditB") =>
       CreditStep(Key(vs.modelIdB, vs.date), vs.pnlB)

\* C18: with a single-agent run and a VS run in flight on the same (agent, date),
\* every debit is applied only when the stored balance covers it and every credit
\* adds to the stored balance of the moment, and no update is lost: the stored
\* balance is the allowance plus every debit and credit applied so far.
C18_LedgerAtomic ==
  /\ [][LedgerSteps]_vars
  /\ [](\A k \in DOMAIN dailyBankrolls :
          dailyBankrolls[k] =
            BLACKJACK_DAILY_CENTS + SumNet(blackjackHands[k])
              + StreamApplied(k) + VsAppliedA(k) + VsAppliedB(k))

\* Both runs stand between their debit and their credit on one key, both debits applied.
C18_Witness ==
  /\ stream.pc = "credit" /\ vs.pc = "creditA"
  /\ Key(stream.modelId, stream.date) = Key(vs.modelIdA, vs.date)
  /\ dailyBankrolls[Key(stream.modelId, stream.date)] =
       BLACKJACK_DAILY_CENTS - stream.betCents - vs.betA

-----------------------------------------------------------------------------
(* Properties of the event sequences *)

\* The agent an event is about: "a" or "b" in a VS run, none in a single-agent run.
PlayerOf(ev) == IF ev.arg = <<>> THEN <<>> ELSE <<ev.arg[1]>>

Reject == [ph |-> "reject", i |-> 0]

\* Agent i's turn takes up (or goes on) with a reasoning fragment or a decision.
TurnStep(i, ev, agents) ==
  IF PlayerOf(ev) # agents[i] THEN Reject
  ELSE IF ev.type = "reasoning_chunk" THEN [ph |-> "think", i |-> i]
  ELSE IF ev.type = "decision" THEN [ph |-> "decided", i |-> i]
  ELSE Reject

\* Agent i's turn is over: the next agent's turn, or the dealer's reveal.
TurnOver(i, ev, agents) ==
  IF i < Len(agents) THEN TurnStep(i + 1, ev, agents)
  ELSE IF ev.type = "dealer_reveal" THEN [ph |-> "dealer", i |-> 0]
  ELSE Reject

\* The order of one round, event by event; a terminal marker stops the reading.
OrderStep(q, ev, agents) ==
  IF q.ph \in {"reject", "stop"} THEN q
  ELSE IF ev.type \in {"done", "error"} THEN [ph |-> "stop", i |-> 0]
  ELSE CASE q.ph = "idle" ->
              IF ev.type = "hand_start" THEN [ph |-> "started", i |-> 0] ELSE Reject
         [] q.ph = "started" ->
              IF ev.type \in {"deal", "deal_vs"} THEN [ph |-> "dealt", i |-> 1] ELSE Reject
         [] q.ph = "dealt" ->
              IF ev.type = "bet" /\ PlayerOf(ev) = agents[q.i]
              THEN IF q.i < Len(agents) THEN [ph |-> "dealt", i |-> q.i + 1]
                   ELSE [ph |-> "turn", i |-> 0]
              ELSE Reject
         [] q.ph = "turn" -> TurnStep(1, ev, agents)
         [] q.ph = "think" -> TurnStep(q.i, ev, agents)
         [] q.ph = "decided" ->
              IF ev.type = "player_card" /\ PlayerOf(ev) = agents[q.i]
              THEN [ph |-> "drew", i |-> q.i]
              ELSE TurnOver(q.i, ev, agents)
         [] q.ph = "drew" ->
              IF ev.type \in {"reasoning_chunk", "decision"} /\ PlayerOf(ev) = agents[q.i]
              THEN TurnStep(q.i, ev, agents)
              ELSE TurnOver(q.i, ev, agents)
         [] q.ph = "dealer" ->
              IF ev.type = "dealer_draw" THEN q
              ELSE IF ev.type \in {"outcome", "outcome_vs"} THEN [ph |-> "outcome", i |-> 0]
              ELSE Reject
         [] q.ph = "outcome" ->
              IF ev.type = "hand_end" THEN [ph |-> "idle", i |-> 0] ELSE Reject
         [] OTHER -> Reject

RECURSIVE OrderAfter(_, _, _)
OrderAfter(q, evs, agents) ==
  IF evs = <<>> THEN q
  ELSE OrderAfter(OrderStep(q, Head(evs), agents), Tail(evs), agents)

InOrder(evs, agents) ==
  OrderAfter([ph |-> "idle", i |-> 0], evs, agents).ph # "reject"

\* The first position of an event of the type at or after position n; 0 when none.
FirstAfter(evs, n, type) ==
  LET later == {i \in n..Len(evs) : evs[i].type = type}
  IN IF later = {} THEN 0 ELSE CHOOSE i \in later : \A m \in later : i <= m

\* In each round that reached hand_end, every bet event comes after the deal event.
DealBeforeBets(evs) ==
  \A h \in 1..Len(evs) :
    (evs[h].type = "hand_start" /\ FirstAfter(evs, h, "hand_end") # 0) =>
      \A b \in h..FirstAfter(evs, h, "hand_end") :
        evs[b].type = "bet" =>
          \E d \in h..b : evs[d].type \in {"deal", "deal_vs"}

\* C19: the events of every round come in the order hand_start, deal, one bet per
\* agent, then per agent a repetition of (reasoning_chunk any number of times,
\* decision, and player_card after a hit), dealer_reveal, dealer_draw any number of
\* times, one outcome, hand_end; and the deal event precedes every bet event of
\* the round.
C19_EventOrder ==
  /\ InOrder(events.s, <<<<>>>>)
  /\ InOrder(events.v, <<<<"a">>, <<"b">>>>)
  /\ DealBeforeBets(events.s)
  /\ DealBeforeBets(events.v)

\* A VS round is over in which agent A reasoned, hit and went on, and the dealer drew.
C19_Witness ==
  /\ events.v # <<>>
  /\ Last(events.v).type = "hand_end"
  /\ \E i \in 1..Len(events.v), j \in 1..Len(events.v) :
       /\ i < j
       /\ events.v[i] = Ev("player_card", <<"a">>)
       /\ events.v[j] = Ev("reasoning_chunk", <<"a">>)
  /\ \E i \in 1..Len(events.v) : events.v[i].type = "dealer_draw"

\* The positions of the terminal markers in an event sequence.
Markers(evs) == {i \in 1..Len(evs) : evs[i].type \in {"done", "error"}}

\* At most one terminal marker, and nothing after it.
OneMarkerLast(evs) ==
  /\ Cardinality(Markers(evs)) <= 1
  /\ \A i \in Markers(evs) : i = Len(evs)

\* C20: the event sequence of a run holds at most one terminal marker, done or
\* error and never both, no event follows it, and a run that is over with its
\* consumer still connected has sent exactly one.
C20_OneTerminalMarker ==
  /\ OneMarkerLast(events.s)
  /\ OneMarkerLast(events.v)
  /\ (stream.pc = "done" /\ conn.s = "open") => Cardinality(Markers(events.s)) = 1
  /\ (vs.pc = "done" /\ conn.v = "open") => Cardinality(Markers(events.v)) = 1

-----------------------------------------------------------------------------
(* Properties of the two-agent round *)

\* The first n cards a deck hands out, in the order they are popped.
FirstPopped(deck, n) == [i \in 1..n |-> deck[Len(deck) + 1 - i]]

Distinct(cards) ==
  \A i \in 1..Len(cards), j \in 1..Len(cards) : i < j => cards[i] # cards[j]

\* The VS round has been dealt and its turns are being played.
VsDealt == vs.pc \in {"betA", "betB", "playA", "playB"}

\* The dealer has played and both outcomes are computed.
VsResolved ==
  vs.pc \in {"deductA", "creditA", "deductB", "creditB", "selectA", "selectB",
             "insertA", "insertB", "end"}

\* Every card handed out in the round so far.
VsHanded ==
  vs.cardsA \o vs.cardsB
    \o (IF VsResolved THEN vs.dealerCards ELSE <<vs.dealerUpcard, vs.dealerDown>>)

\* The deal of a VS round: one deck, A's two cards, B's two cards, then the dealer's two.
VsDealStep ==
  (vs.pc = "loop" /\ vs'.pc = "betA") =>
    \E deck0 \in Shuffles :
      /\ FirstPopped(deck0, 6) =
           vs'.cardsA \o vs'.cardsB \o <<vs'.dealerUpcard, vs'.dealerDown>>
      /\ vs'.deck = SubSeq(deck0, 1, Len(deck0) - 6)

\* C21: in every VS round both agents' two cards come off one deck ahead of the
\* dealer's two, all the cards handed out in the round (both hands, every hit, every
\* dealer card) are pairwise distinct, and both outcomes are resolved against the one
\* final dealer hand.
C21_SharedDeckAndDealer ==
  /\ [][VsDealStep]_vars
  /\ []((VsDealt \/ VsResolved) => Distinct(VsHanded))
  /\ [](VsResolved =>
          /\ SubSeq(vs.dealerCards, 1, 2) = <<vs.dealerUpcard, vs.dealerDown>>
          /\ vs.outcomeA = (IF isBust(vs.cardsA) THEN "loss"
                            ELSE resolveHand(vs.cardsA, vs.dealerCards))
          /\ vs.outcomeB = (IF isBust(vs.cardsB) THEN "loss"
                            ELSE resolveHand(vs.cardsB, vs.dealerCards)))

\* A VS round is resolved in which an agent hit and the dealer drew.
C21_Witness ==
  /\ VsResolved
  /\ Len(vs.cardsA) + Len(vs.cardsB) > 4
  /\ Len(vs.dealerCards) > 2

\* The statement a VS run is at and the statements that may come next: the awaits of
\* playHandsStreamVs in program order (a run has one statement outstanding).
VsOrder ==
  { <<"idle", "getA">>, <<"idle", "done">>, <<"getA", "getB">>, <<"getB", "loop">>,
    <<"loop", "betA">>, <<"loop", "done">>,
    <<"betA", "betB">>, <<"betB", "playA">>,
    <<"playA", "playA">>, <<"playA", "playB">>,
    <<"playB", "playB">>, <<"playB", "deductA">>,
    <<"deductA", "creditA">>, <<"deductA", "done">>,
    <<"creditA", "deductB">>,
    <<"deductB", "creditB">>, <<"deductB", "done">>,
    <<"creditB", "selectA">>, <<"selectA", "selectB">>, <<"selectB", "insertA">>,
    <<"insertA", "insertB">>, <<"insertB", "end">>, <<"end", "loop">>,
    <<"done", "idle">> }

\* The balances a step changed.
ChangedKeys ==
  {k \in DOMAIN dailyBankrolls' :
     ~HasRow(dailyBankrolls, k) \/ dailyBankrolls'[k] # dailyBankrolls[k]}

\* The only balance a statement of the VS settlement may change, and by how much.
VsLedgerStep ==
  VsActive =>
    /\ (vs.pc \notin {"getA", "getB", "deductA", "creditA", "deductB", "creditB"} =>
         ChangedKeys = {})
    /\ (vs.pc \in {"deductA", "creditA"} =>
         ChangedKeys \subseteq {Key(vs.modelIdA, vs.date)})
    /\ (vs.pc \in {"deductB", "creditB"} =>
         ChangedKeys \subseteq {Key(vs.modelIdB, vs.date)})
    /\ (vs.pc = "deductA" /\ vs'.pc = "creditA") =>
         dailyBankrolls' = [dailyBankrolls EXCEPT ![Key(vs.modelIdA, vs.date)] = @ - vs.betA]
    /\ (vs.pc = "deductB" /\ vs'.pc = "creditB") =>
         dailyBankrolls' = [dailyBankrolls EXCEPT ![Key(vs.modelIdB, vs.date)] = @ - vs.betB]

\* C22: a VS round asks for A's wager, then B's wager, then all of A's decisions,
\* then all of B's decisions, one call after the other; A's debit and credit are
\* applied before B's debit, so B is never debited for a round A has not been
\* debited and credited for.
C22_SequentialCalls ==
  /\ [][(vs'.pc # vs.pc) => (<<vs.pc, vs'.pc>> \in VsOrder)]_vars
  /\ [][VsLedgerStep]_vars
  /\ [](/\ vs.deductedB <= vs.deductedA
         /\ vs.deductedA <= vs.deductedB + 1
         /\ (vs.pc \in {"deductA", "creditA", "deductB"} => vs.deductedB = vs.settledB)
         /\ (vs.pc \in {"creditA", "deductB"} => vs.deductedA = vs.deductedB + 1))

\* Both agents took more than one decision and all four ledger statements of the
\* round have been applied.
C22_Witness ==
  /\ vs.pc = "selectA"
  /\ Len(vs.cardsA) > 2 /\ Len(vs.cardsB) > 2
  /\ vs.deductedA = vs.deductedB /\ vs.deductedA > vs.settledA

-----------------------------------------------------------------------------
(* Properties of the ledger operations *)

\* getOrCreateDailyBankroll on (modelId, date) in the ledger db: a missing row is
\* created at the allowance, every row there is stays as it is, and a second call
\* changes nothing.
GetOrCreateLaw(db, modelId, date) ==
  LET k == Key(modelId, date)
      db1 == getOrCreateDailyBankroll(db, modelId, date)
  IN /\ DOMAIN db1 = DOMAIN db \cup {k}
     /\ \A k2 \in DOMAIN db : db1[k2] = db[k2]
     /\ ~HasRow(db, k) => db1[k] = BLACKJACK_DAILY_CENTS
     /\ getOrCreateDailyBankroll(db1, modelId, date) = db1

\* C23: getOrCreateDailyBankroll seeds the (agent, date) balance with the daily
\* allowance on first access and otherwise leaves every stored balance as it is,
\* however often it is called and whatever the balances of other dates are; the
\* run that calls it reads the stored balance.
C23_GetOrCreateIdempotent ==
  /\ [](\A m \in ModelIds, d \in Dates : GetOrCreateLaw(dailyBankrolls, m, d))
  /\ [][(stream.pc = "get" /\ stream'.pc = "loop") =>
          /\ GetOrCreateLaw(dailyBankrolls, stream.modelId, stream.date)
          /\ dailyBankrolls' =
               getOrCreateDailyBankroll(dailyBankrolls, stream.modelId, stream.date)
          /\ stream'.balance = BalanceOf(dailyBankrolls, Key(stream.modelId, stream.date))
          /\ \A k \in DOMAIN dailyBankrolls : dailyBankrolls'[k] = dailyBankrolls[k]]_vars

\* A run's first access on the second day seeds the allowance while the balance of
\* the first day stands at another amount.
C23_Witness ==
  /\ stream.pc = "loop" /\ stream.date = 2
  /\ stream.balance = BLACKJACK_DAILY_CENTS
  /\ HasRow(dailyBankrolls, Key(stream.modelId, 1))
  /\ dailyBankrolls[Key(stream.modelId, 1)] # BLACKJACK_DAILY_CENTS

\* A deductBet call for amount b on key k by a run whose result after the call is
\* res: a decline changes nothing and comes back to the caller as a value, an
\* accepted debit takes exactly b.
DeductOutcome(k, b, res) ==
  IF b > BalanceOf(dailyBankrolls, k)
  THEN dailyBankrolls' = dailyBankrolls /\ res # "threw"
  ELSE dailyBankrolls' = [dailyBankrolls EXCEPT ![k] = @ - b]

\* C24: deductBet called with an amount above the current balance leaves the balance
\* as it is and hands the decline to its caller as a result, not as a thrown fault;
\* otherwise it takes exactly the amount off the balance.
C24_DeclineIsResult ==
  [][/\ (stream.pc = "deduct" /\ stream'.pc # "deduct") =>
          DeductOutcome(Key(stream.modelId, stream.date), stream.betCents, stream'.result)
     /\ (vs.pc = "deductA" /\ vs'.pc # "deductA") =>
          DeductOutcome(Key(vs.modelIdA, vs.date), vs.betA, vs'.result)
     /\ (vs.pc = "deductB" /\ vs'.pc # "deductB") =>
          DeductOutcome(Key(vs.modelIdB, vs.date), vs.betB, vs'.result)]_vars

\* No run stands between the debit of a round on key k and the INSERT of its record.
Quiet(k) ==
  /\ ~(Key(stream.modelId, stream.date) = k /\ stream.pc \in {"credit", "select", "insert"})
  /\ ~(Key(vs.modelIdA, vs.date) = k
         /\ vs.pc \in {"creditA", "deductB", "creditB", "selectA", "selectB", "insertA"})
  /\ ~(Key(vs.modelIdB, vs.date) = k
         /\ vs.pc \in {"creditB", "selectA", "selectB", "insertA", "insertB"})

\* C25: the settled hands of an (agent, date) are one record per round whose debit
\* and credit were applied: with no settlement in flight the stored balance is the
\* allowance plus the bets and results of the recorded hands, and a record once
\* appended is never changed or removed.
C25_RecordPerCommit ==
  /\ [](\A k \in DOMAIN dailyBankrolls :
          Quiet(k) =>
            dailyBankrolls[k] = BLACKJACK_DAILY_CENTS + SumNet(blackjackHands[k]))
  /\ [][\A k \in Keys :
          /\ startsWith(blackjackHands'[k], blackjackHands[k])
          /\ Len(blackjackHands'[k]) <= Len(blackjackHands[k]) + 1]_vars

-----------------------------------------------------------------------------
(* Properties of the engine *)

\* A dealer hand at the end of a round: 17 or more, which covers a bust.
DealerDone(dealerCards) == handValue(dealerCards) >= 17

\* dealerPlays from the two dealt cards: it ends on a hand of 17 or more, and every
\* card but the last was drawn on a hand below 17.
DealerPlaysLaw(deck, hand) ==
  LET final == dealerPlays(deck, hand)[1]
  IN /\ DealerDone(final)
     /\ startsWith(final, hand)
     /\ \A n \in Len(hand)..(Len(final) - 1) : handValue(SubSeq(final, 1, n)) < 17

\* C26: the dealer's final hand of every settled round is 17 or more or bust, in a
\* hand of POST /play (whatever the shuffle and the reply), in a streamed round and
\* in a VS round; dealerPlays draws exactly while the hand is below 17.
C26_DealerStandsOn17 ==
  /\ [][\A m \in ModelIds, b \in PlayBets, deck0 \in Shuffles, d \in DecisionReplies :
          (PostPlayBet(m, b, deck0, d) /\ blackjackHands' # blackjackHands) =>
            DealerDone(PlayHandCards(deck0, NormalizeDecision(d)).dealerCards)]_vars
  /\ [](stream.pc \in {"deduct", "credit", "select", "insert", "end"} =>
          DealerDone(stream.dealerCards))
  /\ [](VsResolved => DealerDone(vs.dealerCards))
  /\ [](\A deck0 \in Shuffles :
          DealerPlaysLaw(SubSeq(deck0, 1, Len(deck0) - 4),
                         <<deck0[Len(deck0) - 2], deck0[Len(deck0) - 3]>>))

\* The value of a card with every ace counted as 1.
HardValue(card) ==
  IF card[1] = "A" THEN 1
  ELSE IF card[1] \in {"K", "Q", "J"} THEN 10
  ELSE RankNumber[card[1]]

RECURSIVE HardTotal(_)
HardTotal(cards) ==
  IF cards = <<>> THEN 0 ELSE HardValue(Head(cards)) + HardTotal(Tail(cards))

\* How many aces of a hand can stay at 11 with the total at 21 or below.
AcesAtEleven(cards) ==
  LET fit == {n \in 0..CountAces(cards) : HardTotal(cards) + 10 * n <= 21}
  IN IF fit = {} THEN 0 ELSE CHOOSE n \in fit : \A m \in fit : m <= n

HandValueLaw(cards) ==
  /\ handValue(cards) = HardTotal(cards) + 10 * AcesAtEleven(cards)
  /\ handValue(cards) > 21 => handValue(cards) = HardTotal(cards)

\* C27: handValue of a hand is the sum of its cards with a face card at 10 and an
\* ace at 11, less 10 for one ace after the other while the total is above 21 and an
\* ace at 11 is left; it is above 21 only with every ace of the hand at 1.
C27_HandValue ==
  /\ HandValueLaw(stream.playerCards)
  /\ HandValueLaw(stream.dealerCards)

\* Two aces and a ten in one hand: both aces end at 1.
C27_Witness ==
  /\ stream.pc = "turn"
  /\ Len(stream.playerCards) = 3
  /\ CountAces(stream.playerCards) = 2
  /\ handValue(stream.playerCards) = 12

\* C28: resolveHand is a loss for a bust player hand, the dealer bust or not;
\* otherwise a win against a bust dealer hand; otherwise a win for the strictly
\* higher player value, a loss for the strictly lower, and a push for equal values.
C28_ResolveHand ==
  stream.pc = "resolved" =>
    LET pv == handValue(stream.playerCards)
        dv == handValue(stream.dealerCards)
    IN /\ pv > 21 => stream.outcome = "loss"
       /\ (pv <= 21 /\ dv > 21) => stream.outcome = "win"
       /\ (pv <= 21 /\ dv <= 21 /\ pv > dv) => stream.outcome = "win"
       /\ (pv <= 21 /\ dv <= 21 /\ pv < dv) => stream.outcome = "loss"
       /\ (pv <= 21 /\ dv <= 21 /\ pv = dv) => stream.outcome = "push"
       /\ stream.outcome \in {"win", "loss", "push"}

\* Player and dealer are both bust and the hand is resolved as a loss.
C28_Witness ==
  /\ stream.pc = "resolved"
  /\ handValue(stream.playerCards) > 21
  /\ handValue(stream.dealerCards) > 21
  /\ stream.outcome = "loss"

-----------------------------------------------------------------------------
(* Properties of the reply parsing *)

\* The reply holds no DECISION: marker and does not begin with hit.
Unmarked(content) ==
  /\ \A i \in 1..Len(Tokens(content)) : ~IsMarker(Tokens(content)[i])
  /\ ~startsWith(toLowerCase(FirstToken(content)), <<"h", "i", "t">>)

\* C29: whatever the text of the reply to a play prompt, the round goes on with a
\* decision of hit or stand, and a reply with no decision marker whose first token is
\* not hit is a stand.
C29_MalformedIsStand ==
  [][\A content \in PlayReplies :
       StreamDecision(parseStructuredResponse(content)) =>
         /\ stream'.lastDecision \in {"hit", "stand"}
         /\ stream'.pc \in {"play", "deduct"}
         /\ Unmarked(content) => stream'.lastDecision = "stand"]_vars

-----------------------------------------------------------------------------
(* Properties of the odds series *)

\* The wagers placed in a performance market and in a head-to-head market, in the
\* order of their placement
PerfPlaced(modelId, period) ==
  SelectSeq(performanceBets,
            LAMBDA row : <<row.domain, row.model_id, row.period>>
                           = <<"blackjack", modelId, period>>)

Next3Placed(date) ==
  SelectSeq(next3Bets,
            LAMBDA row : <<row.model_a_id, row.model_b_id, row.date>>
                           = <<MarketPair[1], MarketPair[2], date>>)

\* The stakes of the first k placements on the given directions
RECURSIVE StakedUpTo(_, _, _)
StakedUpTo(rows, k, dirs) ==
  IF k = 0 THEN 0
  ELSE StakedUpTo(rows, k - 1, dirs)
         + (IF rows[k].direction \in dirs THEN rows[k].amount_cents ELSE 0)

\* pct, in tenths of a percent, is side / total exactly; or is the tenth nearest to it
ExactShare(pct, side, total) == pct * total = 1000 * side
NearestTenth(pct, side, total) ==
  /\ 2 * (pct * total - 1000 * side) <= total
  /\ 2 * (1000 * side - pct * total) <= total

\* The share a point reports against the totals it reports
ShareLaw(pct, side, total, exact) ==
  IF total = 0 THEN pct = 500
  ELSE IF exact THEN ExactShare(pct, side, total) ELSE NearestTenth(pct, side, total)

\* One point per placement, in order, with the cumulative stakes of each side
PerfSeriesLaw(modelId, period, exact) ==
  LET h == getOddsHistory(performanceBets, "blackjack", modelId, period)
      rows == PerfPlaced(modelId, period)
  IN /\ Len(h) = Len(rows)
     /\ \A k \in 1..Len(h) :
          /\ h[k].totalYesCents = StakedUpTo(rows, k, {"outperform"})
          /\ h[k].totalNoCents = StakedUpTo(rows, k, PerfDirections \ {"outperform"})
          /\ ShareLaw(h[k].impliedYesPct, h[k].totalYesCents,
                      h[k].totalYesCents + h[k].totalNoCents, exact)

Next3SeriesLaw(date, exact) ==
  LET h == getNext3OddsHistory(next3Bets, MarketPair[1], MarketPair[2], date)
      rows == Next3Placed(date)
  IN /\ Len(h) = Len(rows)
     /\ \A k \in 1..Len(h) :
          /\ h[k].totalACents = StakedUpTo(rows, k, {"a_wins"})
          /\ h[k].totalBCents = StakedUpTo(rows, k, Directions \ {"a_wins"})
          /\ ShareLaw(h[k].impliedAWinsPct, h[k].totalACents,
                      h[k].totalACents + h[k].totalBCents, exact)

SeriesLaw(exact) ==
  /\ \A m \in PerfModels, per \in Dates : PerfSeriesLaw(m, per, exact)
  /\ \A date \in Dates : Next3SeriesLaw(date, exact)

\* A step that places no wager leaves every series as it was.
SeriesKept ==
  /\ (Len(performanceBets') = Len(performanceBets)) =>
       \A m \in PerfModels, per \in Dates :
         getOddsHistory(performanceBets', "blackjack", m, per)
           = getOddsHistory(performanceBets, "blackjack", m, per)
  /\ (Len(next3Bets') = Len(next3Bets)) =>
       \A date \in Dates :
         getNext3OddsHistory(next3Bets', MarketPair[1], MarketPair[2], date)
           = getNext3OddsHistory(next3Bets, MarketPair[1], MarketPair[2], date)

\* C30 as stated: both series hold one point per wager placed in the market, in the
\* order of placement, the k-th with the cumulative stakes of the first k placements on
\* each side and an implied probability of exactly stake-on-side over total (50% on an
\* empty pool), and no settlement changes a series.
C30_OddsSeriesExact == [](SeriesLaw(TRUE)) /\ [][SeriesKept]_vars

\* C30 amended: as above, with the implied probability being stake-on-side over total
\* as a percentage rounded to one decimal place.
C30_OddsSeries == [](SeriesLaw(FALSE)) /\ [][SeriesKept]_vars

\* A performance market with 1 on yes and then 2 on no, settled, reporting 33.3%, and
\* a head-to-head market with a wager on each side, settled.
C30_Witness ==
  /\ \E m \in PerfModels, per \in Dates :
       LET h == getOddsHistory(performanceBets, "blackjack", m, per)
           rows == PerfPlaced(m, per)
       IN /\ Len(h) = 2
          /\ h[2] = [impliedYesPct |-> 333, totalYesCents |-> 1, totalNoCents |-> 2]
          /\ \A k \in 1..2 : rows[k].outcome # "pending"
  /\ \E date \in Dates :
       LET h == getNext3OddsHistory(next3Bets, MarketPair[1], MarketPair[2], date)
           rows == Next3Placed(date)
       IN /\ Len(h) = 2
          /\ h[2].totalACents = 1 /\ h[2].totalBCents = 1
          /\ \A k \in 1..2 : rows[k].outcome # "pending"

-----------------------------------------------------------------------------
(* Properties of the audit publication *)

\* A publication of the run ends in this step.
HcsEnded(run, after) == Len(after.hcs) = Len(run.hcs) /\ after.hcs # run.hcs

\* The outcome events of a run's event sequence
Outcomes(evs) == {i \in 1..Len(evs) : evs[i].type \in {"outcome", "outcome_vs"}}

PublicationSteps ==
  /\ HcsEnded(stream, stream') =>
       (/\ stream' = [stream EXCEPT !.hcs = stream'.hcs]
        /\ UNCHANGED <<dailyBankrolls, blackjackHands, events, conn, vs>>)
  /\ HcsEnded(vs, vs') =>
       (/\ vs' = [vs EXCEPT !.hcs = vs'.hcs]
        /\ UNCHANGED <<dailyBankrolls, blackjackHands, events, conn, stream>>)
  /\ (stream.pc = "end" /\ stream'.pc # "end") =>
       (/\ stream'.hcs = Append(stream.hcs, "flight")
        /\ events'.s = events.s \o <<Ev("outcome", <<>>),
                                    Ev("hand_end", <<stream.handIndex + 1>>)>>
        /\ stream'.pc = "loop" /\ stream'.handIndex = stream.handIndex + 1
        /\ UNCHANGED <<dailyBankrolls, blackjackHands>>)
  /\ (vs.pc = "end" /\ vs'.pc # "end") =>
       (/\ vs'.hcs = Append(vs.hcs, "flight")
        /\ events'.v = events.v \o <<Ev("outcome_vs", <<>>),
                                    Ev("hand_end", <<vs.handIndex + 1>>)>>
        /\ vs'.pc = "loop" /\ vs'.handIndex = vs.handIndex + 1
        /\ UNCHANGED <<dailyBankrolls, blackjackHands>>)

\* C31: the end of a publication, sent or failed, changes nothing of the round, the
\* ledger, the records or the events; and the step that starts a publication emits the
\* outcome event and goes to the next round while the publication is still in flight.
C31_PublicationApart == [][PublicationSteps]_vars

\* A second round is settled and its outcome emitted after the first round's
\* publication failed, while its own is still in flight.
C31_Witness ==
  /\ stream.hcs = <<"failed", "flight">>
  /\ stream.settled = 2
  /\ Cardinality(Outcomes(events.s)) = 2

-----------------------------------------------------------------------------
(* Properties of the two forms of the gateway *)

\* The state an ask-only pass reaches from st on the reply content: the decision, the
\* card on a hit, and on stand or bust the dealer's turn and the outcome
AskPass(st, content) ==
  LET d == NormalizeDecision(parseStructuredResponse(Trim(content)))
      base == [st EXCEPT !.lastDecision = d,
                         !.lastReasoning = ParsedReasoning(Trim(content)),
                         !.reasoningAccum = <<>>]
      hit == [base EXCEPT !.playerCards = Append(@, Top(st.deck)), !.deck = Pop(@)]
      after == IF d = "hit" THEN hit ELSE base
      turn == DealerTurn(after.deck, after.dealerUpcard, after.dealerDown)
      outcome == IF isBust(after.playerCards) THEN "loss"
                 ELSE resolveHand(after.playerCards, turn[1])
  IN IF d = "hit" /\ ~isBust(hit.playerCards) THEN hit
     ELSE [after EXCEPT !.pc = "deduct", !.dealerCards = turn[1], !.outcome = outcome,
                        !.pnlCents = PnlCents(outcome, after.betCents)]

\* The chunks of the pass are the last events sent, in order, and the decision event
\* comes next.
ChunksForwarded ==
  LET n == Len(stream.reasoningAccum)
      evs == events.s
  IN /\ Len(evs) > n
     /\ \A i \in 1..n :
          evs[Len(evs) - n + i] = Ev("reasoning_chunk", <<stream.reasoningAccum[i]>>)
     /\ evs[Len(evs) - n].type # "reasoning_chunk"
     /\ Len(events'.s) > Len(evs)
     /\ SubSeq(events'.s, 1, Len(evs)) = evs
     /\ events'.s[Len(evs) + 1].type = "decision"

\* The stored rationale set aside (or not)
Rationale(st, kept) == IF kept THEN st ELSE [st EXCEPT !.lastReasoning = Null]

GatewaySteps(kept) ==
  /\ \A content \in GatewayReplies :
       (stream.reasoningAccum = <<>> /\ StreamAsk(content)) =>
          stream' = AskPass(stream, content)
  /\ \A chunk \in GatewayChunks :
       StreamChunkText(chunk) =>
          (/\ events'.s = Append(events.s, Ev("reasoning_chunk", <<chunk>>))
           /\ stream' = [stream EXCEPT !.reasoningAccum = Append(@, chunk)]
           /\ UNCHANGED <<dailyBankrolls, blackjackHands>>)
  /\ StreamGenDone =>
       (/\ ChunksForwarded
        /\ Rationale(stream', kept)
             = Rationale(AskPass(stream, stream.reasoningAccum), kept))
  /\ (blackjackHands' # blackjackHands) =>
       LET rows == blackjackHands'[Key(stream.modelId, stream.date)]
       IN rows[Len(rows)] =
            [bet_cents |-> stream.betCents, outcome |-> stream.outcome,
             pnl_cents |-> stream.pnlCents, reasoning |-> stream.lastReasoning]

\* C32 as stated: every chunk of a streamed reply is sent on in order as a reasoning
\* event before the decision event, and the pass leaves the round where an ask-only
\* pass with the same final reply leaves it: same decision, cards, outcome and P/L,
\* and the same values for the ledger mutation and for the record, its rationale
\* included.
C32_SameAsAskExact == [][GatewaySteps(TRUE)]_vars

\* C32 amended: as above, but for the rationale stored in the record.
C32_SameAsAsk == [][GatewaySteps(FALSE)]_vars

\* A hand is recorded whose last reply was streamed and held no reasoning marker: the
\* rationale stored is the streamed text itself.
C32_Witness ==
  \E k \in DOMAIN blackjackHands :
    \E i \in 1..Len(blackjackHands[k]) :
      blackjackHands[k][i].reasoning
        = << << <<<<"D", "E", "C", "I", "S", "I", "O", "N", ":">>, <<"h", "i", "t">>>> >> >>

-----------------------------------------------------------------------------
(* Properties of the runs' termination *)

\* The twelve lowest cards of a deck: no hand of twelve cards is worth less
LowestTwelve ==
  <<Card("A","S"), Card("A","H"), Card("A","D"), Card("A","C"),
    Card("2","S"), Card("2","H"), Card("2","D"), Card("2","C"),
    Card("3","S"), Card("3","H"), Card("3","D"), Card("3","C")>>

\* Twelve cards are a bust whatever they are, and three hands of twelve fit in a deck;
\* in the runs, a hand that is asked has a card to draw and is not bust.
LoopsEnd ==
  /\ handValue(LowestTwelve) > 21
  /\ 3 * Len(LowestTwelve) <= 52
  /\ stream.pc = "play" =>
       (stream.deck # <<>> /\ ~isBust(stream.playerCards) /\ Len(stream.playerCards) < 12)
  /\ vs.pc = "playA" => (vs.deck # <<>> /\ ~isBust(vs.cardsA) /\ Len(vs.cardsA) < 12)
  /\ vs.pc = "playB" => (vs.deck # <<>> /\ ~isBust(vs.cardsB) /\ Len(vs.cardsB) < 12)

\* No run settles more rounds than min(max(requested, 1), 100).
RoundsBounded ==
  /\ stream.settled <= stream.totalHands
  /\ vs.settledA <= vs.totalHands /\ vs.settledB <= vs.totalHands
  /\ stream.totalHands \in {0} \cup {TotalHands(h) : h \in TermHands}
  /\ vs.totalHands \in {0} \cup {TotalHands(h) : h \in TermHands}

\* A run that is over with every bankroll it looked at still at the minimum wager or
\* more has settled all its rounds.
RoundsAll ==
  /\ (stream.pc = "done" /\ stream.balance >= MIN_BET_CENTS) =>
       stream.settled = stream.totalHands
  /\ (vs.pc = "done" /\ vs.balanceA >= MIN_BET_CENTS /\ vs.balanceB >= MIN_BET_CENTS) =>
       (vs.settledA = vs.totalHands /\ vs.settledB = vs.totalHands)

\* A run that has started comes to its end.
RunsEnd ==
  /\ StreamActive ~> (stream.pc = "done")
  /\ VsActive ~> (vs.pc = "done")

\* C33: with every call returning, every run ends: a hand that keeps hitting is bust
\* before the deck runs out, the dealer's loop ends, the run settles at most
\* min(max(requested, 1), 100) rounds, and all of them when no bankroll falls below
\* the minimum wager.
C33_RunsTerminate == RunsEnd /\ [](LoopsEnd) /\ [](RoundsBounded) /\ [](RoundsAll)

\* The claim but for the count of a run whose bankrolls never fell short
RunsTerminateAtMost == RunsEnd /\ [](LoopsEnd) /\ [](RoundsBounded)

-----------------------------------------------------------------------------
(* Properties of the play loop *)

\* A pass of a play loop from the hand cards on the deck deck to the hand after: a
\* hit that is not a bust and the loop goes on, or the loop is left on a stand
\* (nothing drawn) or on a hit that is a bust.
PassLaw(cards, deck, after, deckAfter, goesOn) ==
  LET hit == after = Append(cards, Top(deck)) /\ deckAfter = Pop(deck)
      stand == after = cards /\ deckAfter = deck
  IN IF goesOn THEN hit /\ ~isBust(after)
     ELSE stand \/ (hit /\ isBust(after))

PlaySteps ==
  /\ (stream.pc = "play" /\ stream'.pc \in {"play", "deduct"}
        /\ stream'.playerCards # stream.playerCards) =>
       stream'.lastDecision = "hit"
  /\ (stream.pc = "play" /\ stream'.pc = "play" /\ stream'.lastDecision # stream.lastDecision)
       => stream'.lastDecision = "hit"
  /\ (stream.pc = "play" /\ stream'.pc = "deduct") =>
       PassLaw(stream.playerCards, stream.deck, stream'.playerCards,
               IF stream'.playerCards = stream.playerCards THEN stream.deck
               ELSE Pop(stream.deck), FALSE)
  /\ (stream.pc = "play" /\ stream'.pc = "play"
        /\ <<stream'.playerCards, stream'.deck>> # <<stream.playerCards, stream.deck>>) =>
       PassLaw(stream.playerCards, stream.deck, stream'.playerCards, stream'.deck, TRUE)
  /\ (vs.pc = "playA" /\ vs'.pc = "playA" /\ vs' # vs /\ vs'.hcs = vs.hcs) =>
       PassLaw(vs.cardsA, vs.deck, vs'.cardsA, vs'.deck, TRUE)
  /\ (vs.pc = "playA" /\ vs'.pc = "playB") =>
       PassLaw(vs.cardsA, vs.deck, vs'.cardsA, vs'.deck, FALSE)
  /\ (vs.pc = "playB" /\ vs'.pc = "playB" /\ vs' # vs /\ vs'.hcs = vs.hcs) =>
       PassLaw(vs.cardsB, vs.deck, vs'.cardsB, vs'.deck, TRUE)
  /\ (vs.pc = "playB" /\ vs'.pc = "deductA") =>
       PassLaw(vs.cardsB, vs.deck, vs'.cardsB,
               IF vs'.cardsB = vs.cardsB THEN vs.deck ELSE Pop(vs.deck), FALSE)

\* The hand POST /play settles: the reply was a stand, or the hand is bust.
PlayHandEnds ==
  \A m \in ModelIds, b \in PlayBets, deck0 \in Shuffles, d \in DecisionReplies :
    (PostPlayBet(m, b, deck0, d) /\ blackjackHands' # blackjackHands) =>
       LET hand == PlayHandCards(deck0, NormalizeDecision(d)).playerCards
       IN /\ Len(hand) = 2 + (IF NormalizeDecision(d) = "hit" THEN 1 ELSE 0)
          /\ NormalizeDecision(d) # "hit" \/ isBust(hand)

\* The play loops of the two streamed forms
PlayLoopsStreamed == [][PlaySteps]_vars

\* C34: in every entry point each hit draws one card and is followed by a bust check,
\* the agent is asked again after a hit that is not a bust, and the play phase ends
\* only on a stand or a bust, with two cards plus one per hit in the final hand.
C34_PlayLoop == [][PlaySteps /\ PlayHandEnds]_vars

-----------------------------------------------------------------------------
(* Properties of the wager requests *)

\* A balance or a stake that is a number of cents: not NaN, and not negative
IsCents(x) == x # NaN /\ x >= 0

\* The request was accepted: the stake is a number the balance covered, and exactly
\* the stake went off the balance
AcceptedStep ==
  (placement.pc = "idle" /\ placement'.pc = "place")
    => /\ IsCents(placement'.amountCents)
       /\ IsCents(balanceCents)
       /\ balanceCents >= placement'.amountCents
       /\ balanceCents' = balanceCents - placement'.amountCents

\* The request was refused: the balance stays; and a stake above the balance is refused
RefusedStep ==
  /\ (placement.pc = "idle" /\ placement'.pc = "idle" /\ placement' # placement)
       => balanceCents' = balanceCents
  /\ \A kind \in {"bet", "bet-next3"}, amt \in AmountInputs :
       ((\E args \in {placement'.args} : PlacementRequest(kind, args, amt))
          /\ ~(IsCents(balanceCents) /\ IsCents(amt) /\ balanceCents >= amt))
         => placement'.status = 400

\* The recording failed: the stake is back on the balance
FailedStep ==
  (placement.pc = "place" /\ placement'.status = 500)
    => /\ IsCents(balanceCents')
       /\ balanceCents' = balanceCents + placement.amountCents

\* The recording succeeded: the row holds the stake and the balance stays
RecordedStep ==
  (placement.pc = "place" /\ placement'.status = 201)
    => /\ balanceCents' = balanceCents
       /\ \/ /\ Len(performanceBets') = Len(performanceBets) + 1
             /\ Last(performanceBets').amount_cents = placement.amountCents
          \/ /\ Len(next3Bets') = Len(next3Bets) + 1
             /\ Last(next3Bets').amount_cents = placement.amountCents

PlacementSteps == AcceptedStep /\ RefusedStep /\ FailedStep /\ RecordedStep

\* C35: a placement takes exactly the stake off the participant balance, is refused
\* with the balance unchanged when the balance is below the stake, and is refunded in
\* full when the recording fails; the balance is never negative.
C35_PlacementBalance == [](IsCents(balanceCents)) /\ [][PlacementSteps]_vars

\* The same of the requests whose amountCents is a number
NumericRequests ==
  placement.amountCents # NaN /\ placement'.amountCents # NaN /\ balanceCents # NaN
PlacementBalanceNumeric ==
  [](balanceCents # NaN => balanceCents >= 0) /\ [][NumericRequests => PlacementSteps]_vars

-----------------------------------------------------------------------------
(* Properties of the auto-play loop *)

\* No pending hand has a run of the loop and a run of a claimer
NeverBoth == \A r1 \in handRuns, r2 \in handRuns : r1.at = r2.at => r1.by = r2.by

\* The loop plays a pending hand only when it has waited CLAIM_MS unclaimed
LoopPlaysExpired ==
  (vsLoop.pc = "top" /\ vsLoop'.pc = "called")
    => /\ autoPlayState.pendingHand # Null
       /\ clock - autoPlayState.pendingHand[1].at >= CLAIM_MS

\* A claim that returns true takes the pending hand away, and the claimer runs it
ClaimTakes ==
  (vs.pc = "idle" /\ vs'.pc # "idle" /\ vs'.claimed)
    => /\ autoPlayState.pendingHand # Null
       /\ autoPlayState'.pendingHand = Null
       /\ [at |-> autoPlayState.pendingHand[1].at, by |-> "client"] \in handRuns'

\* A pending hand goes away only by being run
GoneWasRun ==
  (autoPlayState.pendingHand # Null /\ autoPlayState'.pendingHand # autoPlayState.pendingHand)
    => \E r \in handRuns' : r.at = autoPlayState.pendingHand[1].at

\* C36: each pending auto-play hand is executed exactly once, by the client that claims
\* it or, after CLAIM_MS unclaimed, by the loop, and never by both.
C36_PendingRunOnce == [](NeverBoth) /\ [][LoopPlaysExpired /\ ClaimTakes /\ GoneWasRun]_vars

\* The same without the exclusion of a double run
PendingRunByRule == [][LoopPlaysExpired /\ ClaimTakes /\ GoneWasRun]_vars

\* The loop's run comes back without a round because a bankroll was below the minimum
InsufficientReturn ==
  /\ vsLoop.pc = "running"
  /\ vsLoop'.pc # "running"
  /\ vs.result = "insufficient"

\* C37: when the unclaimed hand cannot be played for want of bankroll, the loop counts no
\* hand (handCount and lastHandAt stay) and schedules no pending hand until the next
\* UTC day.
C37_InsufficientPauses ==
  [][InsufficientReturn
       => /\ vsLoop'.handCount = vsLoop.handCount
          /\ autoPlayState'.lastHandAt = autoPlayState.lastHandAt
          /\ autoPlayState'.pendingHand = Null
          /\ vsLoop'.pc = "sleepDay"]_vars

-----------------------------------------------------------------------------
(* Properties of the head-to-head pools *)

\* The rows of the pool of a pair and a date
Next3PoolRows(bets, modelAId, modelBId, date) ==
  {i \in 1..Len(bets) : /\ bets[i].model_a_id = modelAId
                        /\ bets[i].model_b_id = modelBId
                        /\ bets[i].date = date}

\* What the rows `is' were paid (wins and push refunds) and what they staked
RECURSIVE Next3Paid(_, _)
Next3Paid(bets, is) ==
  IF is = {} THEN 0
  ELSE LET i == CHOOSE x \in is : TRUE
       IN (IF bets[i].outcome = "pending" THEN 0 ELSE bets[i].payout_cents[1])
            + Next3Paid(bets, is \ {i})

RECURSIVE Next3Staked(_, _)
Next3Staked(bets, is) ==
  IF is = {} THEN 0
  ELSE LET i == CHOOSE x \in is : TRUE
       IN bets[i].amount_cents + Next3Staked(bets, is \ {i})

\* Math.round moves the payout of a win by at most half a cent
PaidWithinStaked(bets, is) ==
  2 * Next3Paid(bets, is)
    <= 2 * Next3Staked(bets, is) + Cardinality({i \in is : bets[i].outcome = "win"})

\* C38: for every pair and date, what the pool has paid out (wins plus push refunds)
\* never exceeds what was staked in it, up to integer rounding.
C38_PoolPaysItsStakes ==
  \A a \in REGISTERED, b \in REGISTERED, d \in Dates :
    PaidWithinStaked(next3Bets, Next3PoolRows(next3Bets, a, b, d))

\* The same of the pools whose wagers all hold the same snapshot
OneSnapshot(bets, is) ==
  \A i \in is, j \in is :
    /\ bets[i].hands_a_at_bet = bets[j].hands_a_at_bet
    /\ bets[i].hands_b_at_bet = bets[j].hands_b_at_bet
PoolPaysItsStakesOneSnapshot ==
  \A a \in REGISTERED, b \in REGISTERED, d \in Dates :
    LET is == Next3PoolRows(next3Bets, a, b, d)
    IN OneSnapshot(next3Bets, is) => PaidWithinStaked(next3Bets, is)

-----------------------------------------------------------------------------
(* Properties of the stored balance and the cumulative P/L *)

\* What getBlackjackDailyState reports as pnlCents of a key: the sum over its rows
CumulativePnl(k) == SumPnl(blackjackHands[k])

\* C39: with every round completed, the stored balance of every (agent, date) is the
\* daily allowance plus the sum of the P/L of its settled-round records of that date.
C39_BalanceIsAllowancePlusPnl ==
  ~Busy =>
    \A k \in DOMAIN dailyBankrolls :
      dailyBankrolls[k] = BLACKJACK_DAILY_CENTS + CumulativePnl(k)

-----------------------------------------------------------------------------
(* Properties of the closing of a performance pool *)

\* Two rows of one (domain, agent, period) pool
SamePerfPool(r1, r2) ==
  r1.domain = r2.domain /\ r1.model_id = r2.model_id /\ r1.period = r2.period

\* C40: no pool of performance wagers holds a pending wager and a settled one: no wager
\* is accepted into a pool after one of its wagers was settled.
C40_NoWagerAfterSettlement ==
  \A i \in 1..Len(performanceBets), j \in 1..Len(performanceBets) :
    SamePerfPool(performanceBets[i], performanceBets[j])
      => ~(performanceBets[i].outcome = "pending" /\ performanceBets[j].outcome # "pending")

====
